---- MODULE Spec2Model ----
(***************************************************************************)
(* Model of the finite-automaton engine of lib/rust/automata/src/dfa.rs:   *)
(* epsilon closures (eps_matrix), the direct-transition table              *)
(* (nfa_matrix), the subset construction (impl From<&Nfa> for Dfa), the    *)
(* matrix-driven transition (Dfa::next_state), the scanner (Parser) and    *)
(* the per-state step routines that gen_parser_steps_code emits.           *)
(*                                                                         *)
(* States and columns are numbered from 0 as in the source.  State sets    *)
(* (nfa::StateSetId) are sets; Vec values are functions over 0..len-1 or   *)
(* sequences.                                                              *)
(***************************************************************************)
EXTENDS Integers, Sequences, FiniteSets, TLC

(***************************************************************************)
(* Bounds of the model.                                                    *)
(***************************************************************************)
\* Largest number of NFA states of an input NFA.
MaxStates == 3
\* Number of alphabet divisions (columns) of the input NFA's alphabet.
NumCols == 2
\* Largest total number of symbol transitions of an input NFA.
MaxLinks == 2
\* Largest total number of epsilon links of an input NFA.
MaxEps == 2
\* Largest total number of epsilon links of an input NFA that is scanned.
ScanMaxEps == 1
\* Largest number of exported states of an input NFA.
MaxExported == 1
\* Largest number of states of an epsilon-only input NFA.
EpsMaxStates == 4
\* Largest total number of epsilon links of an epsilon-only input NFA.
EpsMaxEps == 5
\* Longest scanner input (number of characters before the end of input).
MaxInput == 2
\* Longest symbol sequence a finished DFA is driven with.
MaxWord == 3
\* Largest number of scanner steps taken on one input.
MaxSteps == 2

(***************************************************************************)
(* Program constants.                                                      *)
(***************************************************************************)
\* state::INVALID_IX, the index of StateId::INVALID (usize::MAX in the
\* source, here the largest integer the checker represents).
INVALID_IX == 2147483647

\* StateId::INVALID for both automata kinds.
INVALID == INVALID_IX

\* Dfa::START_STATE = StateId::new(0).
START_STATE == 0

\* StateId::default(): the value `default()` and `unwrap_or_default()` yield
\* for a state identifier, and the value a new Matrix row is filled with.
StateIdDefault == INVALID

(***************************************************************************)
(* Vec values indexed from 0: functions over 0..len-1.                     *)
(***************************************************************************)
VecLen(v) == Cardinality(DOMAIN v)

VecPush(v, x) == [k \in 0..VecLen(v) |-> IF k < VecLen(v) THEN v[k] ELSE x]

EmptyVec == [k \in {} |-> 0]

\* The values a vector, a sequence or a map holds.
Range(f) == {f[x] : x \in DOMAIN f}

\* A sequence without its last element.
Front(w) == SubSeq(w, 1, Len(w) - 1)

(***************************************************************************)
(* Symbols and the alphabet (external collaborator).                       *)
(***************************************************************************)
\* Symbol::eof(): the end-of-input sentinel, greater than every ordinary
\* symbol.  Ordinary symbols are 0..EOF-1.
EOF == NumCols

Symbols == 0..EOF

Chars == 0..(EOF - 1)

\* nfa.alphabet.divisions: the set of the first symbols of the divisions.
\* The model's alphabet gives every ordinary symbol below NumCols-1 its own
\* column; the last column runs to the end of the symbol domain.
Divisions == 0..(NumCols - 1)

\* alphabet.ranges()[column]: the closed interval of a column of a sealed
\* alphabet (divisions[column] is the first symbol of the column).
RangeOf(divisions, column) ==
    [start |-> divisions[column],
     end   |-> IF column + 1 \in DOMAIN divisions
                 THEN divisions[column + 1] - 1
                 ELSE EOF]

\* alphabet.index_of_symbol(symbol): the column whose interval holds symbol.
index_of_symbol(divisions, symbol) ==
    CHOOSE c \in DOMAIN divisions :
        /\ RangeOf(divisions, c).start <= symbol
        /\ symbol <= RangeOf(divisions, c).end

(***************************************************************************)
(* Matrix (data::matrix::Matrix, external collaborator).                   *)
(***************************************************************************)
\* Matrix::new(rows, columns): every cell holds the default value.
Matrix_new(rows, columns) ==
    [rows |-> rows, columns |-> columns,
     m |-> [r \in 0..(rows - 1) |-> [c \in 0..(columns - 1) |-> StateIdDefault]]]

\* Matrix::new_row(): appends one row of default values.
Matrix_new_row(mat) ==
    [mat EXCEPT !.rows = mat.rows + 1,
                !.m = [r \in 0..mat.rows |->
                         IF r < mat.rows THEN mat.m[r]
                         ELSE [c \in 0..(mat.columns - 1) |-> StateIdDefault]]]

\* matrix[(row, column)] = value.
Matrix_set(mat, row, column, value) ==
    [mat EXCEPT !.m[row][column] = value]

\* Matrix::safe_index(row, column).unwrap_or_default().
Matrix_safe_index_or_default(mat, row, column) ==
    IF row < mat.rows /\ column < mat.columns
      THEN mat.m[row][column]
      ELSE StateIdDefault

(***************************************************************************)
(* Input NFAs.                                                             *)
(*   n       number of states (nfa.states.len())                           *)
(*   start   nfa.start                                                     *)
(*   links   links[s][c]: what state.targets(&nfa.alphabet) yields for     *)
(*           state s in column c (a target or INVALID)                     *)
(*   eps     eps[s]: nfa[s].epsilon_links, in list order                   *)
(*   export  export[s]: nfa[s].export                                      *)
(*   divisions  nfa.alphabet.divisions                                     *)
(***************************************************************************)
States(n) == 0..(n - 1)

Cols == 0..(NumCols - 1)

\* The link table without any symbol transition.
NoLinks(n) == [s \in States(n) |-> [c \in Cols |-> INVALID]]

RECURSIVE LinkTables(_, _)
\* Link tables over n states with at most k symbol transitions.
LinkTables(n, k) ==
    IF k = 0 THEN {NoLinks(n)}
    ELSE LET prev == LinkTables(n, k - 1)
         IN prev \cup
            {[x[1] EXCEPT ![x[2]][x[3]] = x[4]] :
               x \in {y \in prev \X States(n) \X Cols \X States(n) :
                        y[1][y[2]][y[3]] = INVALID}}

\* The epsilon-link lists without any link.
NoEps(n) == [s \in States(n) |-> <<>>]

RECURSIVE EpsTables(_, _)
\* Epsilon-link lists over n states with at most k links in all, every
\* list free of duplicates, in every list order.
EpsTables(n, k) ==
    IF k = 0 THEN {NoEps(n)}
    ELSE LET prev == EpsTables(n, k - 1)
         IN prev \cup
            {[x[1] EXCEPT ![x[2]] = Append(x[1][x[2]], x[3])] :
               x \in {y \in prev \X States(n) \X States(n) :
                        \A j \in DOMAIN y[1][y[2]] : y[1][y[2]][j] # y[3]}}

\* Export flags over n states with at most k exported states.
ExportFlags(n, k) ==
    {x \in [States(n) -> BOOLEAN] :
        Cardinality({s \in States(n) : x[s]}) <= k}

(***************************************************************************)
(* Epsilon closures: eps_matrix and its inner fill_eps_matrix.             *)
(* The traversal state st holds the shared per-state cache `states`, the   *)
(* per-root `visited` array, and two counters: the number of calls of      *)
(* fill_eps_matrix so far and the deepest recursion reached.  `entered`    *)
(* is the set of states fill_eps_matrix was called on for the current      *)
(* root, and `reentered` tells whether a call was made on a member of it.  *)
(***************************************************************************)
Max(a, b) == IF a >= b THEN a ELSE b

RECURSIVE fill_eps_matrix(_, _, _, _)
RECURSIVE fill_eps_links(_, _, _, _, _, _)
RECURSIVE fill_eps_links_without_cache(_, _, _, _, _, _)
RECURSIVE fill_eps_links_cache_by_link_index(_, _, _, _, _, _)
RECURSIVE fill_eps_links_unmarking(_, _, _, _, _, _)

\* fill_eps_links without `state_set.extend(states[target.id()].iter())`:
\* a link contributes its target alone.
fill_eps_links_without_cache(nfa, st, state, depth, k, state_set) ==
    IF k > Len(nfa.eps[state])
      THEN [st EXCEPT !.states[state] = state_set]
      ELSE LET target == nfa.eps[state][k]
               st2 == IF ~st.visited[target]
                        THEN fill_eps_matrix(nfa, st, target, depth + 1)
                        ELSE st
           IN fill_eps_links_without_cache(nfa, st2, state, depth, k + 1,
                                           state_set \cup {target})

\* fill_eps_links with the cache read at the position of the link in the
\* list, `states[k]`, in place of `states[target.id()]`.
fill_eps_links_cache_by_link_index(nfa, st, state, depth, k, state_set) ==
    IF k > Len(nfa.eps[state])
      THEN [st EXCEPT !.states[state] = state_set]
      ELSE LET target == nfa.eps[state][k]
               st2 == IF ~st.visited[target]
                        THEN fill_eps_matrix(nfa, st, target, depth + 1)
                        ELSE st
           IN fill_eps_links_cache_by_link_index(nfa, st2, state, depth,
                  k + 1, state_set \cup {target} \cup st2.states[k - 1])

\* fill_eps_links with `visited[state.id()] = false` after the loop: the
\* marker guards the states of the current path only.
fill_eps_links_unmarking(nfa, st, state, depth, k, state_set) ==
    IF k > Len(nfa.eps[state])
      THEN [st EXCEPT !.states[state] = state_set,
                      !.visited[state] = FALSE]
      ELSE LET target == nfa.eps[state][k]
               st2 == IF ~st.visited[target]
                        THEN fill_eps_matrix(nfa, st, target, depth + 1)
                        ELSE st
           IN fill_eps_links_unmarking(nfa, st2, state, depth, k + 1,
                  state_set \cup {target} \cup st2.states[target])

\* The `for &target in &nfa[state].epsilon_links` loop from link k on, with
\* the local state_set built so far; ends with states[state] = state_set.
fill_eps_links(nfa, st, state, depth, k, state_set) ==
    IF k > Len(nfa.eps[state])
      THEN [st EXCEPT !.states[state] = state_set]
      ELSE LET target == nfa.eps[state][k]
               st2 == IF ~st.visited[target]
                        THEN fill_eps_matrix(nfa, st, target, depth + 1)
                        ELSE st
           IN fill_eps_links(nfa, st2, state, depth, k + 1,
                             state_set \cup {target} \cup st2.states[target])

\* fill_eps_matrix without `state_set.insert(state)`.
fill_eps_matrix_without_self(nfa, st, state, depth) ==
    fill_eps_links(nfa,
                   [st EXCEPT !.visited[state] = TRUE,
                              !.calls = st.calls + 1,
                              !.depth = Max(st.depth, depth),
                              !.entered = st.entered \cup {state},
                              !.reentered = st.reentered
                                              \/ state \in st.entered],
                   state, depth, 1, {})

fill_eps_matrix(nfa, st, state, depth) ==
    fill_eps_links(nfa,
                   [st EXCEPT !.visited[state] = TRUE,
                              !.calls = st.calls + 1,
                              !.depth = Max(st.depth, depth),
                              !.entered = st.entered \cup {state},
                              !.reentered = st.reentered
                                              \/ state \in st.entered],
                   state, depth, 1, {state})

RECURSIVE eps_matrix_roots(_, _, _)
\* The `for id in 0..nfa.states.len()` loop from root id on.
eps_matrix_roots(nfa, st, id) ==
    IF id >= nfa.n
      THEN st
      ELSE eps_matrix_roots(nfa,
             fill_eps_matrix(nfa,
                [st EXCEPT !.visited = [s \in States(nfa.n) |-> FALSE],
                           !.entered = {}],
                id, 1),
             id + 1)

eps_matrix_run(nfa) ==
    eps_matrix_roots(nfa,
        [states  |-> [s \in States(nfa.n) |-> {}],
         visited |-> [s \in States(nfa.n) |-> FALSE],
         calls   |-> 0,
         depth   |-> 0,
         entered |-> {},
         reentered |-> FALSE],
        0)

eps_matrix(nfa) == eps_matrix_run(nfa).states

(***************************************************************************)
(* nfa_matrix: the direct-transition table, ignoring epsilon links.        *)
(***************************************************************************)
\* nfa_matrix with the first epsilon link of a state taken where the state
\* has no target in the column.
nfa_matrix_with_eps(nfa) ==
    [rows |-> nfa.n, columns |-> Cardinality(nfa.divisions),
     m |-> [s \in States(nfa.n) |->
              [c \in 0..(Cardinality(nfa.divisions) - 1) |->
                 IF nfa.links[s][c] = INVALID /\ nfa.eps[s] # <<>>
                   THEN nfa.eps[s][1] ELSE nfa.links[s][c]]]]

\* matrix[(state_ix, voc_ix)] = target, for the targets of every state.
nfa_matrix(nfa) ==
    [rows |-> nfa.n, columns |-> Cardinality(nfa.divisions),
     m |-> [s \in States(nfa.n) |->
              [c \in 0..(Cardinality(nfa.divisions) - 1) |-> nfa.links[s][c]]]]

(***************************************************************************)
(* State of the program.                                                   *)
(***************************************************************************)
VARIABLES
    nfa,            \* the borrowed input NFA
    pc,             \* position inside Dfa::from
    nfa_mat,        \* Dfa::from local: nfa_matrix(nfa)
    eps_mat,        \* Dfa::from local: eps_matrix(nfa)
    dfa_mat,        \* Dfa::from local: the growing DFA matrix
    dfa_eps_ixs,    \* Dfa::from local: the worklist of state sets
    dfa_eps_map,    \* Dfa::from local: state set -> DFA state id
    i,              \* Dfa::from local: the row being processed
    voc_ix,         \* Dfa::from local: the column being processed
    dfa,            \* the Dfa value Dfa::from returns
    scan,           \* position of the scanner harness
    parser,         \* the Parser stepped through STEPS_LOOKUP_TABLE
    matrix_parser,  \* the Parser stepped through Dfa::next_state
    steps,          \* number of steps both scanners have taken
    input           \* the input string given to Parser::new

\* The ComputedValueInfoRegistry of the execution context.
VARIABLES
    reg_strong,     \* number of Rc<ComputedValueInfoRegistry> handles alive
    reg_map,        \* registry.map: expression id -> ComputedValueInfo
    reg_published,  \* the messages given to registry.updates.publish, in order
    reg_subs,       \* the subscribers and futures made from the registry
    reg_last_batch  \* ghost: the argument of the last apply_updates call

registry_vars == <<reg_strong, reg_map, reg_published, reg_subs,
                   reg_last_batch>>

\* The shortcut Registry of the application.
VARIABLES
    sc_action_map,  \* action_map: (action type, key mask) -> list of Instance
    sc_rule,        \* the rules made by `registry + shortcut`, by identifier
    sc_processed,   \* ghost: number of process_action calls so far
    sc_last_key,    \* ghost: the (action type, key mask) of the last call
    sc_status,      \* the value of the command status the conditions name
    sc_call         \* the last process_action call: what it emitted, which
                    \* RefCells were borrowed meanwhile, how it ended

shortcut_vars == <<sc_action_map, sc_rule, sc_processed, sc_last_key,
                   sc_status, sc_call>>

\* The global counter of Counter::new.
VARIABLES
    cnt_next,       \* the static NEXT of Counter::new
    cnt_thread,     \* per thread: where it is in a call of new()
    cnt_fetched,    \* ghost: the values fetch_add has yielded, in its order
    cnt_returned    \* ghost: the identifiers the calls of new() have returned

counter_vars == <<cnt_next, cnt_thread, cnt_fetched, cnt_returned>>

\* The Root View of the IDE.
VARIABLES
    root_model,     \* Model: state, and the children of its display_object
    root_handles,   \* the View handles alive (View is CloneRef)
    root_events     \* ghost: number of switch_view_to_project events so far

root_vars == <<root_model, root_handles, root_events>>

\* The state outside the automata library.
app_vars == <<registry_vars, shortcut_vars, counter_vars, root_vars>>

vars == <<nfa, pc, nfa_mat, eps_mat, dfa_mat, dfa_eps_ixs, dfa_eps_map, i,
          voc_ix, dfa, scan, parser, matrix_parser, steps, input, app_vars>>

automata_vars == <<nfa, pc, nfa_mat, eps_mat, dfa_mat, dfa_eps_ixs,
                   dfa_eps_map, i, voc_ix, dfa, scan, parser, matrix_parser,
                   steps, input>>

not_registry_vars == <<automata_vars, shortcut_vars, counter_vars, root_vars>>

not_shortcut_vars == <<automata_vars, registry_vars, counter_vars, root_vars>>

not_counter_vars == <<automata_vars, registry_vars, shortcut_vars, root_vars>>

not_root_vars == <<automata_vars, registry_vars, shortcut_vars, counter_vars>>

from_vars == <<nfa_mat, eps_mat, dfa_mat, dfa_eps_ixs, dfa_eps_map, i, voc_ix>>

scan_vars == <<scan, parser, matrix_parser, steps, input>>

\* A Parser over the empty input before Parser::new has run.
NoParser ==
    [input_iter |-> <<>>, current_input |-> 0, dfa_state |-> StateIdDefault,
     consumed |-> 0]

NoDfa ==
    [alphabet |-> EmptyVec, links |-> Matrix_new(0, 0), sources |-> EmptyVec,
     exported_sources |-> EmptyVec]

\* Rc::new(ComputedValueInfoRegistry::default()): one handle, an empty map,
\* nothing published, nobody subscribed.
RegistryInit ==
    /\ reg_strong = 1
    /\ reg_map = EmptyVec
    /\ reg_published = <<>>
    /\ reg_subs = <<>>
    /\ reg_last_batch = <<>>

\* Registry::new: no shortcut has been added, no key event processed.
ShortcutInit ==
    /\ sc_action_map = EmptyVec
    /\ sc_rule = <<>>
    /\ sc_processed = 0
    /\ sc_last_key = <<"Press", 0>>
    /\ sc_status = FALSE
    /\ sc_call = [handler |-> "none", emitted |-> 0,
                  action_map_borrow |-> "free", instances_borrow |-> "free",
                  outcome |-> "returned"]

\* The threads that call new().
CntThreads == 2

\* static NEXT: AtomicU64 = AtomicU64::new(1); no call of new() is running.
CounterInit ==
    /\ cnt_next = 1
    /\ cnt_thread = [t \in 1..CntThreads |->
                       [pc |-> "idle", value |-> 0, type |-> "Counter"]]
    /\ cnt_fetched = <<>>
    /\ cnt_returned = <<>>

\* display_object.add_child(child): the child is attached, once, after the
\* children the object has.
add_child(children, child) ==
    Append(SelectSeq(children, LAMBDA c : c # child), child)

\* display_object.remove_child(child): the child is detached if attached.
remove_child(children, child) ==
    SelectSeq(children, LAMBDA c : c # child)

\* Model::new: state WelcomeScreen, both views made, the welcome view added
\* to the display object.
Model_new ==
    [state |-> "WelcomeScreen",
     children |-> add_child(<<>>, "welcome_view")]

\* View::new(app): the model and one handle of the view.
RootInit ==
    /\ root_model = Model_new
    /\ root_handles = {1}
    /\ root_events = 0

AppInit == RegistryInit /\ ShortcutInit /\ CounterInit /\ RootInit

\* Everything but the input NFA before Dfa::from is called.
Locals ==
    /\ pc = "start"
    /\ nfa_mat = Matrix_new(0, 0)
    /\ eps_mat = EmptyVec
    /\ dfa_mat = Matrix_new(0, 0)
    /\ dfa_eps_ixs = EmptyVec
    /\ dfa_eps_map = EmptyVec
    /\ i = 0
    /\ voc_ix = 0
    /\ dfa = NoDfa
    /\ scan = "off"
    /\ parser = NoParser
    /\ matrix_parser = NoParser
    /\ steps = 0
    /\ input = <<>>
    /\ AppInit

\* The input NFA is one with at most maxStates states, maxLinks symbol
\* transitions, maxEps epsilon links and maxExported exported states, whose
\* start state is one of starts.
InitNfa(maxStates, maxLinks, maxEps, maxExported, starts) ==
    \E n \in 1..maxStates :
      \E l \in LinkTables(n, maxLinks) :
        \E e \in EpsTables(n, maxEps) :
          \E x \in ExportFlags(n, maxExported) :
            \E st \in starts \cap States(n) :
              nfa = [n |-> n, start |-> st, links |-> l, eps |-> e,
                     export |-> x, divisions |-> Divisions]

\* NFAs whose start state is state 0, as Nfa::default() builds them; the
\* DFA of each is built and then scanned.
Init ==
    /\ InitNfa(MaxStates, MaxLinks, ScanMaxEps, MaxExported, {0})
    /\ Locals

\* NFAs whose start state is state 0, with more epsilon links; the DFA of
\* each is built.
InitFrom ==
    /\ InitNfa(MaxStates, MaxLinks, MaxEps, MaxExported, {0})
    /\ Locals

\* NFAs with any start state (the field nfa.start is public).
InitStart ==
    /\ InitNfa(MaxStates, MaxLinks, MaxEps, MaxExported, States(MaxStates))
    /\ Locals

\* NFAs without exported states and with few epsilon links, for the runs of
\* the loop to its exit.
InitTerm ==
    /\ InitNfa(MaxStates, MaxLinks, ScanMaxEps, 0, {0})
    /\ Locals

\* NFAs with epsilon links only, for the closure computation.
InitEps ==
    /\ InitNfa(EpsMaxStates, 0, EpsMaxEps, 0, {0})
    /\ Locals

(***************************************************************************)
(* impl From<&Nfa> for Dfa: the subset construction, one action per        *)
(* statement group of the loop.                                            *)
(***************************************************************************)
\* cell_eps_set with the direct target in place of its cached closure.
cell_eps_set_without_closure(nmat, emat, source_set, c) ==
    {nmat.m[eps_ix][c] :
       eps_ix \in {s \in source_set : nmat.m[s][c] # INVALID}}

\* cell_eps_set over every NFA state in place of the members of the source
\* set.
cell_eps_set_of_all_states(nmat, emat, source_set, c) ==
    UNION {emat[nmat.m[eps_ix][c]] :
             eps_ix \in {s \in DOMAIN emat : nmat.m[s][c] # INVALID}}

\* The inner `for &eps_ix in &dfa_eps_ixs[i]` loop: the union, over the
\* members of the source set with a valid direct target in column c, of the
\* cached closure of that target.
cell_eps_set(nmat, emat, source_set, c) ==
    UNION {emat[nmat.m[eps_ix][c]] :
             eps_ix \in {s \in source_set : nmat.m[s][c] # INVALID}}

\* The state set pushed to the worklist and the dictionary before the loop.
seed_set(emat) == emat[0]

\* map_insert on a dictionary emptied before every insertion.
map_insert_clearing(map, key, value) == [k \in {key} |-> value]

\* HashMap::insert on a dictionary held as a function.
map_insert(map, key, value) ==
    [k \in (DOMAIN map) \cup {key} |-> IF k = key THEN value ELSE map[k]]

\* map_contains for a dictionary keyed by identity instead of content: a
\* freshly built set is never found.
map_contains_by_identity(map, key) == FALSE

\* Whether dfa_eps_map.get(&key) is Some: the keys are compared by content.
map_contains(map, key) == key \in DOMAIN map

\* cell_id with the new identifier one past the worklist length.
cell_id_off_by_one(map, ixs, eps_set) ==
    IF map_contains(map, eps_set) THEN map[eps_set] ELSE VecLen(ixs) + 1

\* The identifier the `match dfa_eps_map.get(&eps_set)` expression yields.
cell_id(map, ixs, eps_set) ==
    IF map_contains(map, eps_set) THEN map[eps_set] ELSE VecLen(ixs)

\* From_Begin with the DFA matrix given one column per NFA state.
From_Begin_column_per_state ==
    /\ pc = "start"
    /\ nfa_mat' = nfa_matrix(nfa)
    /\ eps_mat' = eps_matrix(nfa)
    /\ dfa_mat' = Matrix_new(0, nfa.n)
    /\ dfa_eps_ixs' = VecPush(EmptyVec, seed_set(eps_mat'))
    /\ dfa_eps_map' = map_insert(EmptyVec, seed_set(eps_mat'), START_STATE)
    /\ i' = 0
    /\ voc_ix' = 0
    /\ pc' = "while"
    /\ UNCHANGED <<app_vars, nfa, dfa, scan_vars>>

\* let nfa_mat .. dfa_eps_map.insert(eps_mat[0].clone(), START_STATE); i = 0
From_Begin ==
    /\ pc = "start"
    /\ nfa_mat' = nfa_matrix(nfa)
    /\ eps_mat' = eps_matrix(nfa)
    /\ dfa_mat' = Matrix_new(0, Cardinality(nfa.divisions))
    /\ dfa_eps_ixs' = VecPush(EmptyVec, seed_set(eps_mat'))
    /\ dfa_eps_map' = map_insert(EmptyVec, seed_set(eps_mat'), START_STATE)
    /\ i' = 0
    /\ voc_ix' = 0
    /\ pc' = "while"
    /\ UNCHANGED <<app_vars, nfa, dfa, scan_vars>>

\* While_NewRow with two rows appended for one worklist entry.
While_NewRow_two_rows ==
    /\ pc = "while"
    /\ i < VecLen(dfa_eps_ixs)
    /\ dfa_mat' = Matrix_new_row(Matrix_new_row(dfa_mat))
    /\ voc_ix' = 0
    /\ pc' = "for"
    /\ UNCHANGED <<app_vars, nfa, nfa_mat, eps_mat, dfa_eps_ixs, dfa_eps_map, i, dfa,
                   scan_vars>>

\* while i < dfa_eps_ixs.len() { dfa_mat.new_row(); ...
While_NewRow ==
    /\ pc = "while"
    /\ i < VecLen(dfa_eps_ixs)
    /\ dfa_mat' = Matrix_new_row(dfa_mat)
    /\ voc_ix' = 0
    /\ pc' = "for"
    /\ UNCHANGED <<app_vars, nfa, nfa_mat, eps_mat, dfa_eps_ixs, dfa_eps_map, i, dfa,
                   scan_vars>>

\* For_Cell without the test `if !eps_set.is_empty()`.
For_Cell_without_empty_test ==
    /\ pc = "for"
    /\ voc_ix < Cardinality(nfa.divisions)
    /\ LET eps_set == cell_eps_set(nfa_mat, eps_mat, dfa_eps_ixs[i], voc_ix)
           id == cell_id(dfa_eps_map, dfa_eps_ixs, eps_set)
       IN /\ dfa_mat' = Matrix_set(dfa_mat, i, voc_ix, id)
          /\ IF map_contains(dfa_eps_map, eps_set)
               THEN UNCHANGED <<dfa_eps_ixs, dfa_eps_map>>
               ELSE /\ dfa_eps_ixs' = VecPush(dfa_eps_ixs, eps_set)
                    /\ dfa_eps_map' = map_insert(dfa_eps_map, eps_set, id)
    /\ voc_ix' = voc_ix + 1
    /\ UNCHANGED <<app_vars, nfa, pc, nfa_mat, eps_mat, i, dfa, scan_vars>>

\* One iteration of `for voc_ix in 0..nfa.alphabet.divisions.len()`.
For_Cell ==
    /\ pc = "for"
    /\ voc_ix < Cardinality(nfa.divisions)
    /\ LET eps_set == cell_eps_set(nfa_mat, eps_mat, dfa_eps_ixs[i], voc_ix)
           id == cell_id(dfa_eps_map, dfa_eps_ixs, eps_set)
       IN IF eps_set # {}
            THEN /\ dfa_mat' = Matrix_set(dfa_mat, i, voc_ix, id)
                 /\ IF map_contains(dfa_eps_map, eps_set)
                      THEN UNCHANGED <<dfa_eps_ixs, dfa_eps_map>>
                      ELSE /\ dfa_eps_ixs' = VecPush(dfa_eps_ixs, eps_set)
                           /\ dfa_eps_map' = map_insert(dfa_eps_map, eps_set, id)
            ELSE UNCHANGED <<dfa_mat, dfa_eps_ixs, dfa_eps_map>>
    /\ voc_ix' = voc_ix + 1
    /\ UNCHANGED <<app_vars, nfa, pc, nfa_mat, eps_mat, i, dfa, scan_vars>>

\* For_End with `i += 2`.
For_End_skipping_row ==
    /\ pc = "for"
    /\ voc_ix >= Cardinality(nfa.divisions)
    /\ i' = i + 2
    /\ pc' = "while"
    /\ UNCHANGED <<app_vars, nfa, nfa_mat, eps_mat, dfa_mat, dfa_eps_ixs, dfa_eps_map,
                   voc_ix, dfa, scan_vars>>

\* End of the column loop: i += 1.
For_End ==
    /\ pc = "for"
    /\ voc_ix >= Cardinality(nfa.divisions)
    /\ i' = i + 1
    /\ pc' = "while"
    /\ UNCHANGED <<app_vars, nfa, nfa_mat, eps_mat, dfa_mat, dfa_eps_ixs, dfa_eps_map,
                   voc_ix, dfa, scan_vars>>

RECURSIVE SortedSeq(_)
\* Iteration order of a state set: ascending identifiers.
SortedSeq(set) ==
    IF set = {} THEN <<>>
    ELSE LET least == CHOOSE x \in set : \A y \in set : x <= y
         IN <<least>> \o SortedSeq(set \ {least})

\* epss.into_iter().collect_vec()
sources_of(epss) == SortedSeq(epss)

\* exported_sources_of without the filter on the export flag.
exported_sources_of_unfiltered(export, epss) == SortedSeq(epss)

\* epss.into_iter().filter(|state| nfa[**state].export).cloned().collect_vec()
exported_sources_of(export, epss) ==
    SelectSeq(SortedSeq(epss), LAMBDA state : export[state])

\* (&nfa.alphabet).into(): the sealed alphabet numbers the divisions in
\* ascending order, column k starting at the k-th division.
seal(divisions) ==
    [k \in 0..(Cardinality(divisions) - 1) |-> SortedSeq(divisions)[k + 1]]

\* From_Return with the loop left one row early, `while i + 1 < len`.
From_Return_one_row_early ==
    /\ pc = "while"
    /\ i + 1 >= VecLen(dfa_eps_ixs)
    /\ dfa' = [alphabet |-> seal(nfa.divisions),
               links |-> dfa_mat,
               sources |-> [k \in DOMAIN dfa_eps_ixs |->
                              sources_of(dfa_eps_ixs[k])],
               exported_sources |-> [k \in DOMAIN dfa_eps_ixs |->
                              exported_sources_of(nfa.export, dfa_eps_ixs[k])]]
    /\ pc' = "done"
    /\ UNCHANGED <<app_vars, nfa, from_vars, scan_vars>>

\* The loop has ended: exported_sources, sources, alphabet, Dfa { .. }.
From_Return ==
    /\ pc = "while"
    /\ i >= VecLen(dfa_eps_ixs)
    /\ dfa' = [alphabet |-> seal(nfa.divisions),
               links |-> dfa_mat,
               sources |-> [k \in DOMAIN dfa_eps_ixs |->
                              sources_of(dfa_eps_ixs[k])],
               exported_sources |-> [k \in DOMAIN dfa_eps_ixs |->
                              exported_sources_of(nfa.export, dfa_eps_ixs[k])]]
    /\ pc' = "done"
    /\ UNCHANGED <<app_vars, nfa, from_vars, scan_vars>>

(***************************************************************************)
(* Dfa::next_state.                                                        *)
(***************************************************************************)
\* next_state with the row and the column of the lookup exchanged.
next_state_swapped(d, current_state, symbol) ==
    Matrix_safe_index_or_default(d.links,
                                 index_of_symbol(d.alphabet, symbol),
                                 current_state)

\* next_state with an out-of-range row read as the start row.
next_state_from_start(d, current_state, symbol) ==
    Matrix_safe_index_or_default(d.links,
                                 IF current_state < d.links.rows
                                   THEN current_state ELSE START_STATE,
                                 index_of_symbol(d.alphabet, symbol))

\* self.links.safe_index(current_state.id(), ix).unwrap_or_default()
next_state(d, current_state, symbol) ==
    Matrix_safe_index_or_default(d.links, current_state,
                                 index_of_symbol(d.alphabet, symbol))

(***************************************************************************)
(* Parser.  The field consumed is a ghost: the number of calls of          *)
(* next_input_char since Parser::new returned.                             *)
(***************************************************************************)
\* Symbol::default(), the value of current_input before init() loads one.
SymbolDefault == 0

\* Parser::next_input_char: the next character, or Symbol::eof() once the
\* iterator is exhausted (and at every later call).
next_input_char(p) ==
    IF p.input_iter = <<>>
      THEN [p EXCEPT !.current_input = EOF, !.consumed = p.consumed + 1]
      ELSE [p EXCEPT !.current_input = Head(p.input_iter),
                     !.input_iter = Tail(p.input_iter),
                     !.consumed = p.consumed + 1]

\* Parser::new(input) with Parser::init.
Parser_new(str) ==
    [next_input_char([input_iter |-> str, current_input |-> SymbolDefault,
                      dfa_state |-> StateIdDefault, consumed |-> 0])
       EXCEPT !.consumed = 0]

(***************************************************************************)
(* gen_parser_steps_code.  The emitted text is held as data: fns[row] is   *)
(* the body of step_state<row>, one `if` block per column in column order, *)
(* and table is STEPS_LOOKUP_TABLE, naming a routine per entry.            *)
(***************************************************************************)
\* gen_parser_steps_code with the columns gone through from the last to the
\* first.
gen_parser_steps_code_columns_reversed(d) ==
    [fns |-> [row \in 0..(d.links.rows - 1) |->
                [column \in 0..(d.links.columns - 1) |->
                   LET from == d.links.columns - 1 - column
                   IN [start   |-> RangeOf(d.alphabet, from).start,
                       end     |-> RangeOf(d.alphabet, from).end,
                       invalid |-> d.links.m[row][from] = INVALID,
                       target  |-> d.links.m[row][from]]]],
     table |-> [k \in 0..(d.links.rows - 1) |-> k]]

gen_parser_steps_code(d) ==
    [fns |-> [row \in 0..(d.links.rows - 1) |->
                [column \in 0..(d.links.columns - 1) |->
                   [start   |-> RangeOf(d.alphabet, column).start,
                    end     |-> RangeOf(d.alphabet, column).end,
                    invalid |-> d.links.m[row][column] = INVALID,
                    target  |-> d.links.m[row][column]]]],
     table |-> [k \in 0..(d.links.rows - 1) |-> k]]

\* run_block with the symbol consumed in the invalid branch too.
run_block_invalid_consumes(block, p) ==
    IF p.current_input >= block.start /\ p.current_input <= block.end
      THEN IF block.invalid
             THEN next_input_char(p)
             ELSE next_input_char([p EXCEPT !.dfa_state = block.target])
      ELSE p

\* One emitted `if parser.current_input >= start && .. <= end { .. }` block.
run_block(block, p) ==
    IF p.current_input >= block.start /\ p.current_input <= block.end
      THEN IF block.invalid
             THEN p
             ELSE next_input_char([p EXCEPT !.dfa_state = block.target])
      ELSE p

RECURSIVE run_blocks(_, _, _)
\* The blocks of one routine from block `column` on, one after the other.
run_blocks(blocks, column, p) ==
    IF column >= VecLen(blocks)
      THEN p
      ELSE run_blocks(blocks, column + 1, run_block(blocks[column], p))

\* A call of the emitted routine step_state<row>.
step_state(code, row, p) == run_blocks(code.fns[row], 0, p)

\* One step of a scanner driven by the matrix: the lookup, then the
\* consumption of the symbol.
matrix_step(d, p) ==
    next_input_char(
        [p EXCEPT !.dfa_state = next_state(d, p.dfa_state, p.current_input)])

(***************************************************************************)
(* The scanner harness: two parsers over the same input, one stepped       *)
(* through the dispatch table, one through Dfa::next_state.                *)
(***************************************************************************)
Inputs == UNION {[1..l -> Chars] : l \in 0..MaxInput}

\* Parser::new(input) for both scanners.
Scan_New ==
    /\ pc = "done"
    /\ scan = "off"
    /\ \E str \in Inputs :
         /\ input' = str
         /\ parser' = Parser_new(str)
         /\ matrix_parser' = Parser_new(str)
    /\ scan' = "new"
    /\ steps' = 0
    /\ UNCHANGED <<app_vars, nfa, pc, from_vars, dfa>>

\* The caller assigns the public field: parser.dfa_state = Dfa::START_STATE.
Scan_Start ==
    /\ scan = "new"
    /\ parser' = [parser EXCEPT !.dfa_state = START_STATE]
    /\ matrix_parser' = [matrix_parser EXCEPT !.dfa_state = START_STATE]
    /\ scan' = "run"
    /\ UNCHANGED <<app_vars, nfa, pc, from_vars, dfa, steps, input>>

\* STEPS_LOOKUP_TABLE[parser.dfa_state](parser) beside one matrix step.
Scan_Step ==
    /\ scan \in {"new", "run"}
    /\ steps < MaxSteps
    /\ LET code == gen_parser_steps_code(dfa)
       IN /\ parser.dfa_state < VecLen(code.table)
          /\ parser' = step_state(code, code.table[parser.dfa_state], parser)
    /\ matrix_parser' = matrix_step(dfa, matrix_parser)
    /\ steps' = steps + 1
    /\ UNCHANGED <<app_vars, nfa, pc, from_vars, dfa, scan, input>>

\* STEPS_LOOKUP_TABLE[parser.dfa_state] with the index out of bounds.
Scan_Panic ==
    /\ scan \in {"new", "run"}
    /\ steps < MaxSteps
    /\ parser.dfa_state >= VecLen(gen_parser_steps_code(dfa).table)
    /\ scan' = "panic"
    /\ UNCHANGED <<app_vars, nfa, pc, from_vars, dfa, parser, matrix_parser, steps, input>>

(***************************************************************************)
(* The NFAs of the tests, built with the calls the tests make.  A built    *)
(* NFA b holds states (the state with identifier k at position k + 1, each *)
(* with its links, epsilon links and export flag), start and the alphabet  *)
(* divisions.                                                              *)
(***************************************************************************)
\* The symbols 'a', 'b' and 'c'.
CharCode_a == 97

CharCode_b == 98

CharCode_c == 99

\* A state without links.
State_default == [links |-> <<>>, epsilon_links |-> <<>>, export |-> FALSE]

\* The identifier nfa.new_state() returns.
Nfa_new_state_id(b) == Len(b.states)

\* nfa.new_state()
Nfa_new_state(b) == [b EXCEPT !.states = Append(@, State_default)]

\* Nfa::default(): an automaton with its start state, which is exported, and
\* the alphabet of the one division that starts at symbol 0.
Nfa_default ==
    [states |-> <<[State_default EXCEPT !.export = TRUE]>>,
     start |-> 0,
     divisions |-> {0}]

\* The transition of `source` to `target` on the symbols first..=last; the
\* alphabet gets a division at `first` and one after `last` (the ranges of
\* the tests end before the last symbol of the domain).
Nfa_connect_via(b, source, target, first, last) ==
    [b EXCEPT
       !.divisions = @ \cup {first, last + 1},
       !.states[source + 1].links =
           Append(@, [start |-> first, end |-> last, target |-> target])]

\* nfa.connect(source, target, symbol)
Nfa_connect(b, source, target, symbol) ==
    Nfa_connect_via(b, source, target, symbol, symbol)

\* nfa.connect_eps(source, target)
Nfa_connect_eps(b, source, target) ==
    [b EXCEPT !.states[source + 1].epsilon_links = Append(@, target)]

\* The order of the sorted links: by first symbol, last symbol, target.
Link_le(x, y) ==
    \/ x.start < y.start
    \/ x.start = y.start /\ x.end < y.end
    \/ x.start = y.start /\ x.end = y.end /\ x.target <= y.target

RECURSIVE SortedLinks(_, _)
\* The links at the positions ixs of a link list, sorted.
SortedLinks(links, ixs) ==
    IF ixs = {} THEN <<>>
    ELSE LET least == CHOOSE k \in ixs :
                        \A j \in ixs :
                          /\ Link_le(links[k], links[j])
                          /\ (Link_le(links[j], links[k]) => k <= j)
         IN <<links[least]>> \o SortedLinks(links, ixs \ {least})

RECURSIVE targets_from(_, _, _, _)
\* The loop of State::targets over the divisions from column `column` on, with
\* the position `index` in the sorted links: skip the links that end before
\* the division; the column's target is the link at index if that link has
\* begun, and invalid otherwise.
targets_from(links, alphabet, column, index) ==
    IF column >= VecLen(alphabet) THEN <<>>
    ELSE IF index <= Len(links) /\ links[index].end < alphabet[column]
      THEN targets_from(links, alphabet, column, index + 1)
    ELSE <<IF index > Len(links) \/ links[index].start > alphabet[column]
             THEN INVALID ELSE links[index].target>>
         \o targets_from(links, alphabet, column + 1, index)

\* state.targets(&nfa.alphabet): the target of the state in every column.
targets(state, divisions) ==
    targets_from(SortedLinks(state.links, DOMAIN state.links),
                 seal(divisions), 0, 1)

\* A built NFA as Dfa::from reads it.
NfaOf(b) ==
    [n |-> Len(b.states),
     start |-> b.start,
     links |-> [s \in States(Len(b.states)) |->
                  [c \in 0..(Cardinality(b.divisions) - 1) |->
                     targets(b.states[s + 1], b.divisions)[c + 1]]],
     eps |-> [s \in States(Len(b.states)) |-> b.states[s + 1].epsilon_links],
     export |-> [s \in States(Len(b.states)) |-> b.states[s + 1].export],
     divisions |-> b.divisions]

\* The NFA of test1: s0 -a-> s1 -b-> s2, s0 -c-> s3 -c-> s2, s2 -a-> s1,
\* and the epsilon links s1 -> s0 and s3 -> s2.
Test1Built ==
    LET b0 == Nfa_default
        s0 == b0.start
        s1 == Nfa_new_state_id(b0)
        b1 == Nfa_new_state(b0)
        s2 == Nfa_new_state_id(b1)
        b2 == Nfa_new_state(b1)
        s3 == Nfa_new_state_id(b2)
        b3 == Nfa_new_state(b2)
        b4 == Nfa_connect(b3, s0, s1, CharCode_a)
        b5 == Nfa_connect(b4, s0, s3, CharCode_c)
        b6 == Nfa_connect_eps(b5, s1, s0)
        b7 == Nfa_connect(b6, s1, s2, CharCode_b)
        b8 == Nfa_connect(b7, s2, s1, CharCode_a)
        b9 == Nfa_connect(b8, s3, s2, CharCode_c)
    IN Nfa_connect_eps(b9, s3, s2)

Test1Nfa == NfaOf(Test1Built)

\* The NFA of test1 is the input.
InitTest1 ==
    /\ nfa = Test1Nfa
    /\ Locals

\* nfa.new_pattern(source, range pattern first..=last): a new state entered
\* from `source` by an epsilon link, and a new last state reached from it on
\* the range.
Nfa_new_pattern_range(b, source, first, last) ==
    LET current == Nfa_new_state_id(b)
        b1 == Nfa_connect_eps(Nfa_new_state(b), source, current)
        state == Nfa_new_state_id(b1)
    IN Nfa_connect_via(Nfa_new_state(b1), current, state, first, last)

\* nfa.new_pattern(source, many(range pattern first..=last)): a new state
\* `current` entered from `source` by an epsilon link, the body between new
\* states s1 and s2, a new last state s3, and the epsilon links
\* current -> s1, current -> s3, s2 -> s3 and s3 -> s1.
Nfa_new_pattern_many_range(b, source, first, last) ==
    LET current == Nfa_new_state_id(b)
        b1 == Nfa_connect_eps(Nfa_new_state(b), source, current)
        s1 == Nfa_new_state_id(b1)
        b2 == Nfa_new_pattern_range(Nfa_new_state(b1), s1, first, last)
        s2 == Nfa_new_state_id(b2) - 1
        s3 == Nfa_new_state_id(b2)
        b3 == Nfa_new_state(b2)
        b4 == Nfa_connect_eps(b3, current, s1)
        b5 == Nfa_connect_eps(b4, current, s3)
        b6 == Nfa_connect_eps(b5, s2, s3)
    IN Nfa_connect_eps(b6, s3, s1)

\* nfa::tests::pattern_many(): the pattern 'a'.many() from the start state.
PatternManyBuilt ==
    Nfa_new_pattern_many_range(Nfa_default, Nfa_default.start,
                               CharCode_a, CharCode_a)

PatternManyNfa == NfaOf(PatternManyBuilt)

\* The NFAs of the zero-or-more patterns over one range of the symbols
\* 'a'..'c'; pattern_many's is the one of the range 'a'..='a'.
PatternManyNfas ==
    {NfaOf(Nfa_new_pattern_many_range(Nfa_default, Nfa_default.start,
                                      x[1], x[2])) :
       x \in {y \in (CharCode_a..CharCode_c) \X (CharCode_a..CharCode_c) :
                y[1] <= y[2]}}

\* The NFA of a zero-or-more pattern is the input.
InitPatternMany ==
    /\ nfa \in PatternManyNfas
    /\ Locals

\* The inputs of the tests, next to the small NFAs.
InitTests == InitTerm \/ InitTest1 \/ InitPatternMany

(***************************************************************************)
(* ComputedValueInfoRegistry.  An ExpressionUpdate is a record of          *)
(* expression_id, typename (an Option: "None" or a type name), payload and *)
(* method_pointer.  A subscriber is a record: kind "stream" for a          *)
(* Subscriber got from subscribe(), kind "future" for a future got from    *)
(* get_type; inbox holds the published messages it has not yet taken.  The *)
(* fields received, start and due are ghosts: the messages a stream has    *)
(* yielded, the number of messages published before the subscriber was     *)
(* made, and the typename of the first batch applied while the future was  *)
(* pending that holds the future's id with a typename.                     *)
(***************************************************************************)
RegNumIds == 2

RegMaxBatches == 2

RegMaxBatchLen == 2

RegMaxSubs == 2

RegMaxHandles == 2

ExpressionIds == 1..RegNumIds

\* value_update_with_type(id, typename) and
\* value_update_with_dataflow_error(id), the updates the tests apply.
ExpressionUpdates ==
    {[expression_id |-> id, typename |-> "Text", payload |-> "Value",
      method_pointer |-> "None"] : id \in ExpressionIds}
    \cup
    {[expression_id |-> id, typename |-> "None", payload |-> "DataflowError",
      method_pointer |-> "None"] : id \in ExpressionIds}

\* The update batches the Language Server sends.
Batches == UNION {[1..l -> ExpressionUpdates] : l \in 0..RegMaxBatchLen}

\* impl From<ExpressionUpdate> for ComputedValueInfo
ComputedValueInfo_from(update) ==
    [typename |-> update.typename,
     method_call |-> update.method_pointer,
     payload |-> update.payload]

\* updates.iter().map(|update| update.expression_id).collect()
updated_expressions(updates) ==
    [k \in DOMAIN updates |-> updates[k].expression_id]

RECURSIVE insert_updates_first_wins(_, _)
\* insert_updates with an entry kept once it has been written in the batch.
insert_updates_first_wins(map, updates) ==
    IF updates = <<>> THEN map
    ELSE insert_updates_first_wins(
           map_insert(map, updates[Len(updates)].expression_id,
                      ComputedValueInfo_from(updates[Len(updates)])),
           Front(updates))

RECURSIVE insert_updates(_, _)
\* for update in updates { self.map.borrow_mut().insert(id, info) }
insert_updates(map, updates) ==
    IF updates = <<>> THEN map
    ELSE insert_updates(
           map_insert(map, updates[1].expression_id,
                      ComputedValueInfo_from(updates[1])),
           Tail(updates))

\* |info| info.typename.clone(), the function get_type passes on.
info_typename(info) == info.typename

\* self.get(&id).and_then(&mut f)
get_and_then(map, id) ==
    IF id \in DOMAIN map THEN info_typename(map[id]) ELSE "None"

Pending == [tag |-> "pending", v |-> "None"]

Some(v) == [tag |-> "some", v |-> v]

None == [tag |-> "none", v |-> "None"]

\* future_keeps_registry for a closure that captures the Rc itself.
future_keeps_registry_by_rc == TRUE

\* Whether a pending future of get_from_info keeps the registry alive: the
\* closure captures Rc::downgrade(self), a Weak.
future_keeps_registry == FALSE

\* The registry value exists with `strong` handles held outside futures and
\* the subscribers subs.
registry_alive(strong, subs) ==
    \/ strong > 0
    \/ /\ future_keeps_registry
       /\ \E k \in DOMAIN subs :
            subs[k].kind = "future" /\ subs[k].result = Pending

\* self.updates.publish(update): the message goes to every subscriber.
publish(subs, message) ==
    [k \in DOMAIN subs |->
       IF subs[k].kind = "stream" \/ subs[k].result = Pending
         THEN [subs[k] EXCEPT !.inbox = Append(@, message)]
         ELSE subs[k]]

\* The ghost field due after a batch has been applied.
note_due(subs, map, message) ==
    [k \in DOMAIN subs |->
       IF /\ subs[k].kind = "future"
          /\ subs[k].result = Pending
          /\ subs[k].due = "None"
          /\ subs[k].id \in Range(message)
         THEN [subs[k] EXCEPT !.due = get_and_then(map, subs[k].id)]
         ELSE subs[k]]

\* registry.apply_updates(updates)
Reg_ApplyUpdates ==
    /\ reg_strong > 0
    /\ Len(reg_published) < RegMaxBatches
    /\ \E updates \in Batches :
         /\ reg_last_batch' = updates
         /\ reg_map' = insert_updates(reg_map, updates)
         /\ reg_published' = Append(reg_published, updated_expressions(updates))
         /\ reg_subs' = note_due(publish(reg_subs,
                                         updated_expressions(updates)),
                                 reg_map', updated_expressions(updates))
    /\ UNCHANGED <<reg_strong, not_registry_vars>>

\* registry.subscribe()
Reg_Subscribe ==
    /\ reg_strong > 0
    /\ Len(reg_subs) < RegMaxSubs
    /\ reg_subs' = Append(reg_subs,
                          [kind |-> "stream", id |-> 0, inbox |-> <<>>,
                           received |-> <<>>, result |-> Pending,
                           start |-> Len(reg_published), due |-> "None",
                           ready |-> FALSE])
    /\ UNCHANGED <<reg_strong, reg_map, reg_published, reg_last_batch,
                   not_registry_vars>>

\* subscriber.next() has been run to completion by the executor.
Reg_StreamNext ==
    /\ \E k \in DOMAIN reg_subs :
         /\ reg_subs[k].kind = "stream"
         /\ reg_subs[k].inbox # <<>>
         /\ reg_subs' = [reg_subs EXCEPT
                           ![k].received = Append(@, Head(reg_subs[k].inbox)),
                           ![k].inbox = Tail(@)]
    /\ UNCHANGED <<reg_strong, reg_map, reg_published, reg_last_batch,
                   not_registry_vars>>

\* registry.get_type(id), which is get_from_info(id, |info| info.typename):
\* ready at once when the entry has a typename, subscribed otherwise.
Reg_GetType ==
    /\ reg_strong > 0
    /\ Len(reg_subs) < RegMaxSubs
    /\ \E id \in ExpressionIds :
         LET ret == get_and_then(reg_map, id)
         IN reg_subs' = Append(reg_subs,
              [kind |-> "future", id |-> id, inbox |-> <<>>,
               received |-> <<>>,
               result |-> IF ret # "None" THEN Some(ret) ELSE Pending,
               start |-> Len(reg_published), due |-> "None",
               ready |-> ret # "None"])
    /\ UNCHANGED <<reg_strong, reg_map, reg_published, reg_last_batch,
                   not_registry_vars>>

RECURSIVE poll_stream(_, _, _, _)
\* into_future() of the filter_map stream over the messages of the inbox:
\* the first message that holds id and for which the registry, if it still
\* exists, has an entry with a typename ends the future with that typename;
\* the end of the stream (the publisher is gone) ends it with None.
poll_stream(inbox, id, alive, map) ==
    IF inbox = <<>> THEN (IF alive THEN Pending ELSE None)
    ELSE LET result == IF id \in Range(Head(inbox)) /\ alive
                         THEN get_and_then(map, id) ELSE "None"
         IN IF result # "None" THEN Some(result)
            ELSE poll_stream(Tail(inbox), id, alive, map)

\* The executor polls a pending future of get_type.
Reg_PollFuture ==
    /\ \E k \in DOMAIN reg_subs :
         /\ reg_subs[k].kind = "future"
         /\ reg_subs[k].result = Pending
         /\ reg_subs' = [reg_subs EXCEPT
              ![k].result = poll_stream(reg_subs[k].inbox, reg_subs[k].id,
                                        registry_alive(reg_strong, reg_subs),
                                        reg_map),
              ![k].inbox = <<>>]
    /\ UNCHANGED <<reg_strong, reg_map, reg_published, reg_last_batch,
                   not_registry_vars>>

\* Rc::clone of the registry handle.
Reg_Clone ==
    /\ reg_strong > 0
    /\ reg_strong < RegMaxHandles
    /\ reg_strong' = reg_strong + 1
    /\ UNCHANGED <<reg_map, reg_published, reg_subs, reg_last_batch,
                   not_registry_vars>>

\* drop of a registry handle; the registry is freed with its last owner.
Reg_Drop ==
    /\ reg_strong > 0
    /\ reg_strong' = reg_strong - 1
    /\ reg_map' = IF registry_alive(reg_strong', reg_subs)
                    THEN reg_map ELSE EmptyVec
    /\ UNCHANGED <<reg_published, reg_subs, reg_last_batch,
                   not_registry_vars>>

NextRegistry ==
    \/ Reg_ApplyUpdates
    \/ Reg_Subscribe
    \/ Reg_StreamNext
    \/ Reg_GetType
    \/ Reg_PollFuture
    \/ Reg_Clone
    \/ Reg_Drop

\* The automata library is not used: its state is that of an NFA with the
\* start state only, before Dfa::from.
InitApp ==
    /\ nfa = NfaOf(Nfa_default)
    /\ Locals

(***************************************************************************)
(* The shortcut Registry.  A rule is a record: key, the (action type, key  *)
(* mask) of its shortcut; when, its Condition; handles, the number of      *)
(* Handle clones alive (the strong count of the Rc<Rule>); and two ghosts, *)
(* evaluated and triggered, the number of times process_rules has          *)
(* evaluated the rule and has emitted its command.  An Instance in the     *)
(* action map is the identifier of its rule.                               *)
(***************************************************************************)
ScNumMasks == 1

ScMaxRules == 2

ScMaxHandles == 2

ScMaxProcess == 3

ActionTypes == {"Press", "Release"}

ScKeys == ActionTypes \X (1..ScNumMasks)

Conditions == {"Ok", "Simple"}

\* Instance::upgrade is Some: a Handle of the rule is alive.
Instance_upgrade(rule) == rule.handles > 0

\* condition_checker(&rule.when, &command.status_map)
condition_checker(condition, status) ==
    IF condition = "Ok" THEN TRUE ELSE status

\* retained_rules that keeps every instance.
retained_rules_all(rules, table) == rules

\* rules.retain(|weak_rule| weak_rule.upgrade().map(..).is_some())
retained_rules(rules, table) ==
    SelectSeq(rules, LAMBDA r : Instance_upgrade(table[r]))

\* The rules after process_rules(rules): the closure of retain has run on
\* every instance whose rule is alive, and the targets collected have been
\* emitted.
processed_rules(rules, table, status) ==
    [r \in DOMAIN table |->
       IF r \in Range(rules) /\ Instance_upgrade(table[r])
         THEN [table[r] EXCEPT
                 !.evaluated = @ + 1,
                 !.triggered =
                    IF condition_checker(table[r].when, status)
                      THEN @ + 1 ELSE @]
         ELSE table[r]]

\* What the handler of a command does when the command is emitted: nothing
\* with the shortcut registry, `registry + shortcut`, or a key event that
\* runs process_action.
Handlers == {"none", "add", "process"}

\* The targets process_rules collects: one per instance of the list whose
\* rule is alive and whose condition holds.
collected_targets(rules, table, status) ==
    {r \in Range(rules) :
       /\ Instance_upgrade(table[r])
       /\ condition_checker(table[r].when, status)}

\* The borrows alive while `for target in targets { target.emit(()) }`
\* runs: the RefMut of action_map taken in process_action lives until
\* process_action returns; the Ref of command_registry.instances ended
\* with the block around retain.
emission_borrows == [action_map |-> "mut", instances |-> "free"]

\* The RefCell borrows a handler asks for: `registry + shortcut` calls
\* action_map.borrow_mut(); process_action calls action_map.borrow_mut()
\* and then command_registry.instances.borrow().
handler_panics(handler, borrows) ==
    \/ handler \in {"add", "process"} /\ borrows.action_map # "free"
    \/ handler = "process" /\ borrows.instances = "mut"

\* registry + shortcut
Sc_Add ==
    /\ sc_call.outcome = "returned"
    /\ Len(sc_rule) < ScMaxRules
    /\ \E key \in ScKeys, when \in Conditions :
         /\ sc_rule' = Append(sc_rule,
                              [key |-> key, when |-> when, handles |-> 1,
                               evaluated |-> 0, triggered |-> 0])
         /\ sc_action_map' =
              map_insert(sc_action_map, key,
                         Append(IF key \in DOMAIN sc_action_map
                                  THEN sc_action_map[key] ELSE <<>>,
                                Len(sc_rule) + 1))
    /\ UNCHANGED <<sc_processed, sc_last_key, sc_status, sc_call,
                   not_shortcut_vars>>

\* handle.clone()
Sc_CloneHandle ==
    /\ sc_call.outcome = "returned"
    /\ \E r \in DOMAIN sc_rule :
         /\ sc_rule[r].handles > 0
         /\ sc_rule[r].handles < ScMaxHandles
         /\ sc_rule' = [sc_rule EXCEPT ![r].handles = @ + 1]
    /\ UNCHANGED <<sc_action_map, sc_processed, sc_last_key, sc_status,
                   sc_call, not_shortcut_vars>>

\* drop(handle)
Sc_DropHandle ==
    /\ sc_call.outcome = "returned"
    /\ \E r \in DOMAIN sc_rule :
         /\ sc_rule[r].handles > 0
         /\ sc_rule' = [sc_rule EXCEPT ![r].handles = @ - 1]
    /\ UNCHANGED <<sc_action_map, sc_processed, sc_last_key, sc_status,
                   sc_call, not_shortcut_vars>>

\* The status of the command the Simple conditions name changes.
Sc_SetStatus ==
    /\ sc_call.outcome = "returned"
    /\ sc_status' = ~sc_status
    /\ UNCHANGED <<sc_action_map, sc_rule, sc_processed, sc_last_key, sc_call,
                   not_shortcut_vars>>

\* model.process_action(action_type, key_mask), run by the keyboard events.
Sc_ProcessAction ==
    /\ sc_call.outcome = "returned"
    /\ sc_processed < ScMaxProcess
    /\ \E key \in ScKeys, handler \in Handlers :
         /\ sc_last_key' = key
         /\ IF key \in DOMAIN sc_action_map
              THEN /\ sc_action_map' =
                        [sc_action_map EXCEPT
                           ![key] = retained_rules(@, sc_rule)]
                   /\ sc_rule' = processed_rules(sc_action_map[key], sc_rule,
                                                 sc_status)
                   /\ LET emitted == collected_targets(sc_action_map[key],
                                                       sc_rule, sc_status)
                      IN sc_call' =
                           IF emitted = {}
                             THEN [handler |-> "none", emitted |-> 0,
                                   action_map_borrow |-> "free",
                                   instances_borrow |-> "free",
                                   outcome |-> "returned"]
                             ELSE [handler |-> handler,
                                   emitted |-> Cardinality(emitted),
                                   action_map_borrow |->
                                       emission_borrows.action_map,
                                   instances_borrow |->
                                       emission_borrows.instances,
                                   outcome |->
                                       IF handler_panics(handler,
                                                         emission_borrows)
                                         THEN "panicked" ELSE "returned"]
              ELSE /\ UNCHANGED <<sc_action_map, sc_rule>>
                   /\ sc_call' = [handler |-> "none", emitted |-> 0,
                                  action_map_borrow |-> "free",
                                  instances_borrow |-> "free",
                                  outcome |-> "returned"]
    /\ sc_processed' = sc_processed + 1
    /\ UNCHANGED <<sc_status, not_shortcut_vars>>

NextShortcut ==
    \/ Sc_Add
    \/ Sc_CloneHandle
    \/ Sc_DropHandle
    \/ Sc_SetStatus
    \/ Sc_ProcessAction

(***************************************************************************)
(* Counter::new and the new() of the types of define_id!.  The width of    *)
(* the counter is CntBits in place of 64, so that the wrap is within       *)
(* reach.                                                                  *)
(***************************************************************************)
CntBits == 2

CntMaxCalls == 5

\* The number of values of the counter.
CntModulus == Cardinality(SUBSET (1..CntBits))

\* The types whose new() takes its value from Counter::new.
IdTypes == {"TestIdA", "TestIdB"}

\* fetch_add_next for a load followed by a store of the same value.
fetch_add_next_unchanged(next) == next

\* The value of NEXT after NEXT.fetch_add(1, Relaxed): wrapping addition.
fetch_add_next(next) == (next + 1) % CntModulus

\* let value = NEXT.fetch_add(1, atomic::Ordering::Relaxed), by a thread
\* that has called new() of one of the types.
Cnt_FetchAdd ==
    /\ Len(cnt_fetched) < CntMaxCalls
    /\ \E t \in DOMAIN cnt_thread, type \in IdTypes :
         /\ cnt_thread[t].pc = "idle"
         /\ cnt_thread' = [cnt_thread EXCEPT
                             ![t] = [pc |-> "fetched", value |-> cnt_next,
                                     type |-> type]]
    /\ cnt_fetched' = Append(cnt_fetched, cnt_next)
    /\ cnt_next' = fetch_add_next(cnt_next)
    /\ UNCHANGED <<cnt_returned, not_counter_vars>>

\* NonZeroU64::new(value).unwrap() or new_unchecked(value), and the return
\* of the identifier.  For the value 0 a debug build panics; in a release
\* build new_unchecked(0) is undefined behaviour, of which the return of an
\* identifier with the value 0 is an outcome.
Cnt_Return ==
    /\ \E t \in DOMAIN cnt_thread :
         /\ cnt_thread[t].pc = "fetched"
         /\ \/ /\ cnt_thread' = [cnt_thread EXCEPT ![t].pc = "idle"]
               /\ cnt_returned' =
                    Append(cnt_returned,
                           [value |-> cnt_thread[t].value,
                            type |-> cnt_thread[t].type, thread |-> t])
            \/ /\ cnt_thread[t].value = 0
               /\ cnt_thread' = [cnt_thread EXCEPT ![t].pc = "panicked"]
               /\ UNCHANGED cnt_returned
    /\ UNCHANGED <<cnt_next, cnt_fetched, not_counter_vars>>

NextCounter ==
    \/ Cnt_FetchAdd
    \/ Cnt_Return

(***************************************************************************)
(* The Root View: Model::switch_view, run by the FRP network of the view   *)
(* at every switch_view_to_project event, and the handles of the view.     *)
(***************************************************************************)
RootMaxHandles == 4

RootMaxEvents == 6

\* switch_view without `remove_child(&self.welcome_view)`.
switch_view_without_remove(model) ==
    [state |-> "OpenedProject",
     children |-> add_child(model.children, "project_view")]

\* Model::switch_view
switch_view(model) ==
    [state |-> "OpenedProject",
     children |-> add_child(remove_child(model.children, "welcome_view"),
                            "project_view")]

\* view.switch_view_to_project.emit(()) through a handle of the view:
\* eval_ frp.switch_view_to_project(model.switch_view()).
Root_SwitchViewToProject ==
    /\ root_events < RootMaxEvents
    /\ \E h \in root_handles :
         /\ root_model' = switch_view(root_model)
         /\ root_events' = root_events + 1
    /\ UNCHANGED <<root_handles, not_root_vars>>

\* view.clone_ref()
Root_CloneRef ==
    /\ root_handles # {}
    /\ \E h \in (1..RootMaxHandles) \ root_handles :
         root_handles' = root_handles \cup {h}
    /\ UNCHANGED <<root_model, root_events, not_root_vars>>

\* drop(view)
Root_Drop ==
    /\ \E h \in root_handles : root_handles' = root_handles \ {h}
    /\ UNCHANGED <<root_model, root_events, not_root_vars>>

NextRoot ==
    \/ Root_SwitchViewToProject
    \/ Root_CloneRef
    \/ Root_Drop

SpecRoot == InitApp /\ [][NextRoot]_vars

NextFrom ==
    \/ From_Begin
    \/ While_NewRow
    \/ For_Cell
    \/ For_End
    \/ From_Return

Next ==
    \/ NextFrom
    \/ Scan_New
    \/ Scan_Start
    \/ Scan_Step
    \/ Scan_Panic

Spec == Init /\ [][Next]_vars

SpecFrom == InitFrom /\ [][NextFrom]_vars

SpecStart == InitStart /\ [][NextFrom]_vars

SpecEps == InitEps /\ [][NextFrom]_vars

SpecTests == InitTests /\ [][NextFrom]_vars

SpecRegistry == InitApp /\ [][NextRegistry]_vars

SpecShortcut == InitApp /\ [][NextShortcut]_vars

SpecCounter == InitApp /\ [][NextCounter]_vars

\* Dfa::from is one sequential call: a statement that can run does run.
SpecFromFair == InitTerm /\ [][NextFrom]_vars /\ WF_vars(NextFrom)

(***************************************************************************)
(* Reference notions the properties are stated with.                       *)
(***************************************************************************)
\* set and the states one epsilon link away from a member of set.
EpsSuccessors(set) == set \cup UNION {Range(nfa.eps[s]) : s \in set}

RECURSIVE EpsReach(_)
\* The states reachable from a member of set by zero or more epsilon links.
EpsReach(set) ==
    IF EpsSuccessors(set) = set THEN set ELSE EpsReach(EpsSuccessors(set))

\* The epsilon closure of one NFA state.
Closure(s) == EpsReach({s})

\* One step of the NFA simulation: the union of the closures of the direct
\* targets, in column c, of the members of set.
NfaStep(set, c) ==
    UNION {Closure(nfa.links[s][c]) :
             s \in {t \in set : nfa.links[t][c] # INVALID}}

RECURSIVE NfaRun(_)
\* The NFA state set after the symbols of w.
NfaRun(w) ==
    IF w = <<>> THEN Closure(nfa.start)
    ELSE NfaStep(NfaRun(Front(w)), index_of_symbol(seal(nfa.divisions), w[Len(w)]))

RECURSIVE DfaRun(_)
\* The DFA state after the symbols of w, by next_state from row 0.
DfaRun(w) ==
    IF w = <<>> THEN START_STATE
    ELSE next_state(dfa, DfaRun(Front(w)), w[Len(w)])

\* The symbol sequences the DFA is driven with: ordinary symbols and the
\* end-of-input sentinel, in any order.
Words == UNION {[1..l -> Symbols] : l \in 0..MaxWord}

Rows == 0..(dfa.links.rows - 1)

(***************************************************************************)
(* C1.  Driving the DFA from row 0 with next_state tracks the NFA          *)
(* simulation (start state 0): after every prefix the DFA is in the        *)
(* invalid state exactly when the NFA state set is empty, and otherwise in *)
(* a row whose sources are that set and whose exported_sources are its     *)
(* exported members.                                                       *)
(***************************************************************************)
C1_DfaTracksNfa ==
    pc = "done" =>
      \A w \in Words :
        LET set == NfaRun(w)
            row == DfaRun(w)
        IN /\ (row = INVALID) <=> (set = {})
           /\ set # {} =>
                /\ row \in Rows
                /\ Range(dfa.sources[row]) = set
                /\ Range(dfa.exported_sources[row]) =
                     {s \in set : nfa.export[s]}

\* A DFA driven over a word of two or more symbols that leaves the NFA in a
\* set of several states, one of them exported, and the DFA in a row other
\* than row 0; and a word that leaves the NFA in the empty set.
C1_Witness ==
    /\ pc = "done"
    /\ \E w \in Words :
         /\ Len(w) >= 2
         /\ Cardinality(NfaRun(w)) >= 2
         /\ \E s \in NfaRun(w) : nfa.export[s]
         /\ DfaRun(w) \in Rows \ {0}
    /\ \E w \in Words : NfaRun(w) = {}

(***************************************************************************)
(* C2.  eps_matrix is complete: the final entry of every state s holds     *)
(* every state reachable from s by zero or more epsilon links.             *)
(***************************************************************************)
C2_EpsMatrixComplete ==
    pc # "start" => \A s \in States(nfa.n) : Closure(s) \subseteq eps_mat[s]

\* An NFA of three or more states, all on one epsilon cycle, one of them
\* with a self-loop and one with two epsilon links.
C2_Witness ==
    /\ pc = "done"
    /\ nfa.n >= 3
    /\ \A s \in States(nfa.n) : Closure(s) = States(nfa.n)
    /\ \E s \in States(nfa.n) : s \in Range(nfa.eps[s])
    /\ \E s \in States(nfa.n) : Len(nfa.eps[s]) >= 2

(***************************************************************************)
(* C3.  The routine generated for state s, called on a scanner in state s  *)
(* with current input x, leaves the scanner in state next_state(s, x) with *)
(* exactly one symbol consumed.                                            *)
(***************************************************************************)
C3_RoutineIsLookup ==
    pc = "done" =>
      \A s \in Rows : \A str \in Inputs :
        LET p == [Parser_new(str) EXCEPT !.dfa_state = s]
            q == step_state(gen_parser_steps_code(dfa), s, p)
        IN /\ q.dfa_state = next_state(dfa, s, p.current_input)
           /\ q.consumed = 1

(***************************************************************************)
(* C4.  Stepping through the dispatch table from state 0 yields, after     *)
(* each step, the state and the consumed-symbol count of the scanner       *)
(* stepped by next_state.                                                  *)
(***************************************************************************)
C4_DispatchIsMatrix ==
    scan = "run" =>
      /\ parser.dfa_state = matrix_parser.dfa_state
      /\ parser.consumed = matrix_parser.consumed

(***************************************************************************)
(* C5.  Row 0 of the DFA is the epsilon closure of nfa.start, whatever     *)
(* index the start state has.                                              *)
(***************************************************************************)
C5_RowZeroIsStartClosure ==
    pc = "done" => Range(dfa.sources[0]) = Closure(nfa.start)

(***************************************************************************)
(* C6.  A scanner made by Parser::new is in DFA state 0, with the first    *)
(* symbol of the input loaded, or the end-of-input sentinel when the input *)
(* is empty.                                                               *)
(***************************************************************************)
C6_NewParserAtStart ==
    scan = "new" =>
      /\ parser.dfa_state = START_STATE
      /\ parser.current_input = IF input = <<>> THEN EOF ELSE input[1]

(***************************************************************************)
(* C7.  The final eps_matrix entry of every state s contains s itself.     *)
(***************************************************************************)
C7_EpsMatrixReflexive ==
    pc # "start" => \A s \in States(nfa.n) : s \in eps_mat[s]

\* An NFA with a state on a self-loop, a state on a longer epsilon cycle and
\* a state without epsilon links.
C7_Witness ==
    /\ pc = "done"
    /\ \E s \in States(nfa.n) : s \in Range(nfa.eps[s])
    /\ \E s \in States(nfa.n) :
         \E t \in Closure(s) \ {s} : s \in Closure(t)
    /\ \E s \in States(nfa.n) : nfa.eps[s] = <<>>

(***************************************************************************)
(* C8.  The sources of every row of the DFA are closed under epsilon       *)
(* reachability in the NFA.                                                *)
(***************************************************************************)
C8_SourcesClosed ==
    pc = "done" =>
      \A r \in Rows : \A s \in Range(dfa.sources[r]) :
        Closure(s) \subseteq Range(dfa.sources[r])

\* A row other than row 0 whose sources hold a state together with a state
\* it reaches by an epsilon link.
C8_Witness ==
    /\ pc = "done"
    /\ \E r \in Rows \ {0} : \E s \in Range(dfa.sources[r]) :
         Closure(s) # {s}

(***************************************************************************)
(* C9.  exported_sources of every row lists exactly the members of the     *)
(* row's sources whose export flag is set, each once.                      *)
(***************************************************************************)
C9_ExportedSources ==
    pc = "done" =>
      /\ DOMAIN dfa.exported_sources = Rows
      /\ \A r \in Rows :
           /\ Range(dfa.exported_sources[r]) =
                {s \in Range(dfa.sources[r]) : nfa.export[s]}
           /\ Len(dfa.exported_sources[r]) =
                Cardinality(Range(dfa.exported_sources[r]))

\* A row with an exported source and a source that is not exported, beside
\* a row without exported sources.
C9_Witness ==
    /\ pc = "done"
    /\ \E r \in Rows :
         /\ dfa.exported_sources[r] # <<>>
         /\ Len(dfa.exported_sources[r]) < Len(dfa.sources[r])
    /\ \E r \in Rows : dfa.exported_sources[r] = <<>>

(***************************************************************************)
(* C10.  Every cell of the finished matrix: with U the union of the        *)
(* closures of the valid direct targets, in the cell's column, of the      *)
(* row's sources, the cell is invalid iff U is empty and otherwise names   *)
(* the row whose sources are U.                                            *)
(***************************************************************************)
C10_CellIsUnionRow ==
    pc = "done" =>
      \A r \in Rows : \A c \in 0..(dfa.links.columns - 1) :
        LET U == NfaStep(Range(dfa.sources[r]), c)
            cell == dfa.links.m[r][c]
        IN /\ (cell = INVALID) <=> (U = {})
           /\ U # {} => /\ cell \in Rows
                        /\ Range(dfa.sources[cell]) = U

\* A row with an invalid cell and a valid cell, the valid one naming a row
\* of several sources that it shares with another cell.
C10_Witness ==
    /\ pc = "done"
    /\ \E r \in Rows : \E c, d \in 0..(dfa.links.columns - 1) :
         /\ dfa.links.m[r][c] = INVALID
         /\ dfa.links.m[r][d] # INVALID
         /\ Len(dfa.sources[dfa.links.m[r][d]]) >= 2
         /\ \E r2 \in Rows \ {r} : dfa.links.m[r2][d] = dfa.links.m[r][d]

(***************************************************************************)
(* C11.  State sets are deduplicated by content: at every point of the     *)
(* determinization loop no two worklist positions hold the same state set, *)
(* the dictionary maps every worklist set to its own position, and in the  *)
(* finished DFA no two rows have the same sources.                         *)
(***************************************************************************)
C11_SetsDeduplicated ==
    /\ \A j, k \in DOMAIN dfa_eps_ixs :
         /\ dfa_eps_ixs[j] = dfa_eps_ixs[k] => j = k
         /\ dfa_eps_ixs[k] \in DOMAIN dfa_eps_map
         /\ dfa_eps_map[dfa_eps_ixs[k]] = k
    /\ pc = "done" =>
         \A j, k \in Rows :
           Range(dfa.sources[j]) = Range(dfa.sources[k]) => j = k

\* A finished DFA of three rows in which a set found again (a cell that
\* names a row already named by an earlier cell) was given the old row.
C11_Witness ==
    /\ pc = "done"
    /\ dfa.links.rows >= 3
    /\ \E r1, r2 \in Rows : \E c1, c2 \in 0..(dfa.links.columns - 1) :
         /\ <<r1, c1>> # <<r2, c2>>
         /\ dfa.links.m[r1][c1] # INVALID
         /\ dfa.links.m[r1][c1] = dfa.links.m[r2][c2]

\* The row-major positions of the cells of a matrix that hold identifier k.
Occurrences(mat, k) ==
    {r * mat.columns + c : r \in 0..(mat.rows - 1), c \in 0..(mat.columns - 1)}
      \ {p \in 0..(mat.rows * mat.columns - 1) :
           mat.m[p \div mat.columns][p % mat.columns] # k}

\* The row-major position of the first cell that holds identifier k.
FirstOccurrence(mat, k) ==
    CHOOSE p \in Occurrences(mat, k) : \A q \in Occurrences(mat, k) : p <= q

(***************************************************************************)
(* C13.  Rows are processed in increasing index and the columns of a row   *)
(* in increasing index, and a new set gets the current worklist length as  *)
(* its identifier: while row i is being filled the matrix has rows 0..i    *)
(* and the cells of row i from voc_ix on are still invalid; every valid    *)
(* cell is below the worklist length; and in row-major order the first     *)
(* occurrence of every identifier k >= 1 exists and comes after the first  *)
(* occurrence of every identifier 1..k-1, in the loop and in the finished  *)
(* matrix.                                                                 *)
(***************************************************************************)
C13_IdsInDiscoveryOrder ==
    /\ pc = "while" => dfa_mat.rows = i
    /\ pc = "for" =>
         /\ dfa_mat.rows = i + 1
         /\ \A c \in 0..(dfa_mat.columns - 1) :
              c >= voc_ix => dfa_mat.m[i][c] = INVALID
    /\ pc \in {"while", "for"} =>
         /\ \A r \in 0..(dfa_mat.rows - 1), c \in 0..(dfa_mat.columns - 1) :
              dfa_mat.m[r][c] # INVALID => dfa_mat.m[r][c] < VecLen(dfa_eps_ixs)
         /\ \A k \in 1..(VecLen(dfa_eps_ixs) - 1) :
              /\ Occurrences(dfa_mat, k) # {}
              /\ \A j \in 1..(k - 1) :
                   FirstOccurrence(dfa_mat, j) < FirstOccurrence(dfa_mat, k)
    /\ pc = "done" =>
         \A k \in 1..(dfa.links.rows - 1) :
           /\ Occurrences(dfa.links, k) # {}
           /\ \A j \in 1..(k - 1) :
                FirstOccurrence(dfa.links, j) < FirstOccurrence(dfa.links, k)

\* A finished matrix of three rows in which identifier 1 occurs again after
\* the first occurrence of identifier 2, which was found in a later row
\* than row 0.
C13_Witness ==
    /\ pc = "done"
    /\ dfa.links.rows = 3
    /\ FirstOccurrence(dfa.links, 2) >= dfa.links.columns
    /\ \E p \in Occurrences(dfa.links, 1) : p > FirstOccurrence(dfa.links, 2)

\* 2^n, the number of subsets of n NFA states.
Pow2(n) == Cardinality(SUBSET (0..(n - 1)))

(***************************************************************************)
(* C14.  The subset construction terminates: the worklist never holds more *)
(* than 2^n - 1 sets, all of them non-empty sets of NFA states, and the    *)
(* loop eventually exits with i equal to the worklist length, every        *)
(* discovered set having got its own matrix row.                           *)
(***************************************************************************)
C14_Terminates ==
    /\ [](pc # "start" =>
            /\ VecLen(dfa_eps_ixs) <= Pow2(nfa.n) - 1
            /\ i <= VecLen(dfa_eps_ixs)
            /\ \A k \in DOMAIN dfa_eps_ixs :
                 dfa_eps_ixs[k] # {} /\ dfa_eps_ixs[k] \subseteq States(nfa.n))
    /\ <>(/\ pc = "done"
          /\ i = VecLen(dfa_eps_ixs)
          /\ dfa_mat.rows = VecLen(dfa_eps_ixs)
          /\ dfa.links.rows = VecLen(dfa_eps_ixs))

\* The loop has exited after processing sets that were discovered during
\* the loop, not only the seed.
C14_Witness ==
    /\ pc = "done"
    /\ i = VecLen(dfa_eps_ixs)
    /\ i >= 3

(***************************************************************************)
(* C15.  The row count of the DFA matrix never decreases and grows by      *)
(* exactly one per processed worklist entry: row i is appended, with every *)
(* cell invalid, before any cell of row i is written; a step that writes a *)
(* cell leaves the cells of every other row as they were; i advances only  *)
(* when the matrix has rows 0..i; and at the return the row count, the     *)
(* number of discovered sets and the lengths of sources and                *)
(* exported_sources are equal.                                             *)
(***************************************************************************)
C15_RowPerEntry ==
    [][/\ dfa_mat'.rows \in {dfa_mat.rows, dfa_mat.rows + 1}
       /\ dfa_mat'.rows = dfa_mat.rows + 1 =>
            /\ pc = "while" /\ pc' = "for"
            /\ dfa_mat.rows = i /\ i' = i
            /\ \A c \in 0..(dfa_mat'.columns - 1) : dfa_mat'.m[i][c] = INVALID
            /\ \A r \in 0..(dfa_mat.rows - 1) : dfa_mat'.m[r] = dfa_mat.m[r]
       /\ (dfa_mat'.rows = dfa_mat.rows /\ pc # "start") =>
            \A r \in 0..(dfa_mat.rows - 1) :
              dfa_mat'.m[r] # dfa_mat.m[r] => (pc = "for" /\ r = i)
       /\ i' # i => (i' = i + 1 /\ dfa_mat.rows = i + 1)
       /\ pc' = "done" =>
            /\ dfa'.links.rows = VecLen(dfa_eps_ixs')
            /\ VecLen(dfa'.sources) = dfa'.links.rows
            /\ VecLen(dfa'.exported_sources) = dfa'.links.rows
      ]_vars

\* A third row has just been appended, all invalid, below two rows that
\* already hold written cells.
C15_Witness ==
    /\ pc = "for"
    /\ voc_ix = 0
    /\ i = 2
    /\ dfa_mat.rows = 3
    /\ \A r \in 0..1 : \E c \in 0..(dfa_mat.columns - 1) :
         dfa_mat.m[r][c] # INVALID
    /\ \A c \in 0..(dfa_mat.columns - 1) : dfa_mat.m[2][c] = INVALID

\* State identifiers that name no row of the finished DFA: the invalid
\* sentinel and the first identifiers past the last row.
OutOfRange == {INVALID, dfa.links.rows, dfa.links.rows + 1}

(***************************************************************************)
(* C16.  next_state is total on the finished DFA: for every state          *)
(* identifier, in range or not, and every symbol it yields a row or the    *)
(* invalid sentinel; for an identifier that names no row (the sentinel     *)
(* included) it yields the sentinel; and a run that has reached the        *)
(* sentinel stays there.                                                   *)
(***************************************************************************)
C16_NextStateTotal ==
    pc = "done" =>
      /\ \A st \in Rows \cup OutOfRange : \A symbol \in Symbols :
           /\ next_state(dfa, st, symbol) \in Rows \cup {INVALID}
           /\ st \in OutOfRange => next_state(dfa, st, symbol) = INVALID
      /\ \A w \in Words \ {<<>>} :
           DfaRun(Front(w)) = INVALID => DfaRun(w) = INVALID

\* A run over three symbols that is in a row after the first symbol, in the
\* invalid state after the second and still there after the third, although
\* row 0 has a transition on the third symbol.
C16_Witness ==
    /\ pc = "done"
    /\ \E w \in Words :
         /\ Len(w) = 3
         /\ DfaRun(SubSeq(w, 1, 1)) \in Rows
         /\ DfaRun(SubSeq(w, 1, 2)) = INVALID
         /\ DfaRun(w) = INVALID
         /\ next_state(dfa, START_STATE, w[3]) \in Rows

\* The matrix test1 expects of nfa_matrix (X is the invalid identifier).
Test1Expected ==
    LET X == INVALID_IX
    IN [rows |-> 4, columns |-> 5,
        m |-> [s \in 0..3 |->
                 [c \in 0..4 |->
                    <<<<X, 1, X, 3, X>>,
                      <<X, X, 2, X, X>>,
                      <<X, 1, X, X, X>>,
                      <<X, X, X, 2, X>>>>[s + 1][c + 1]]]]

(***************************************************************************)
(* C17.  nfa_matrix has one row per NFA state and one column per alphabet  *)
(* division; every entry is the target of the state in that column or the  *)
(* invalid identifier, and is a state of the NFA when valid; the table of  *)
(* an NFA is the table of the same NFA without its epsilon links; and the  *)
(* NFA of test1 gives the 4 x 5 matrix the test expects.                   *)
(***************************************************************************)
C17_NfaMatrix ==
    pc # "start" =>
      /\ nfa_mat.rows = nfa.n
      /\ nfa_mat.columns = Cardinality(nfa.divisions)
      /\ DOMAIN nfa_mat.m = States(nfa.n)
      /\ \A s \in States(nfa.n) :
           /\ DOMAIN nfa_mat.m[s] = 0..(Cardinality(nfa.divisions) - 1)
           /\ \A c \in DOMAIN nfa_mat.m[s] :
                /\ nfa_mat.m[s][c] = nfa.links[s][c]
                /\ nfa_mat.m[s][c] \in States(nfa.n) \cup {INVALID}
      /\ nfa_mat = nfa_matrix([nfa EXCEPT !.eps = NoEps(nfa.n)])
      /\ nfa = Test1Nfa => nfa_mat = Test1Expected

\* The table of test1's NFA has been computed; the NFA has epsilon links.
C17_Witness ==
    /\ pc # "start"
    /\ nfa = Test1Nfa
    /\ nfa.divisions = {0, CharCode_a, CharCode_b, CharCode_c, CharCode_c + 1}
    /\ nfa.eps[1] = <<0>> /\ nfa.eps[3] = <<2>>
    /\ nfa_mat.m[0][3] = 3

(***************************************************************************)
(* C18.  The DFA's alphabet is the sealed alphabet of the NFA: its columns *)
(* start at the NFA's divisions, in ascending order, every division once.  *)
(* The DFA matrix has exactly one column per division, as many as the NFA  *)
(* table, from its creation on and in every row.                           *)
(***************************************************************************)
C18_SameAlphabet ==
    /\ pc # "start" =>
         /\ dfa_mat.columns = Cardinality(nfa.divisions)
         /\ dfa_mat.columns = nfa_mat.columns
         /\ \A r \in 0..(dfa_mat.rows - 1) :
              DOMAIN dfa_mat.m[r] = 0..(Cardinality(nfa.divisions) - 1)
    /\ pc = "done" =>
         /\ DOMAIN dfa.alphabet = 0..(Cardinality(nfa.divisions) - 1)
         /\ Range(dfa.alphabet) = nfa.divisions
         /\ \A j, k \in DOMAIN dfa.alphabet :
              j < k => dfa.alphabet[j] < dfa.alphabet[k]
         /\ dfa.links.columns = VecLen(dfa.alphabet)

\* The finished DFA of test1's NFA: five divisions that are not the column
\* numbers, and four NFA states.
C18_Witness ==
    /\ pc = "done"
    /\ nfa = Test1Nfa
    /\ dfa.links.columns = 5
    /\ dfa.alphabet[1] = CharCode_a
    /\ dfa.alphabet[4] = CharCode_c + 1

(***************************************************************************)
(* C19.  The NFA of a zero-or-more pattern over one symbol range           *)
(* determinizes to exactly two rows: row 0 has one valid transition, on    *)
(* the column of the pattern's range (column 1 of the three columns), to   *)
(* row 1; row 1 has one valid transition, on the same column, to itself;   *)
(* every other cell is invalid.                                            *)
(***************************************************************************)
C19_PatternManyTwoRows ==
    (pc = "done" /\ nfa \in PatternManyNfas) =>
      /\ dfa.links.rows = 2
      /\ dfa.links.columns = 3
      /\ \A r \in 0..1 :
           /\ dfa.links.m[r][0] = INVALID
           /\ dfa.links.m[r][1] = 1
           /\ dfa.links.m[r][2] = INVALID
      /\ RangeOf(dfa.alphabet, 1).start \in CharCode_a..CharCode_c

\* The finished DFA of pattern_many's NFA, whose row 1 holds the state
\* reached on 'a' and, by epsilon links, the states the loop leads back to.
C19_Witness ==
    /\ pc = "done"
    /\ nfa = PatternManyNfa
    /\ dfa.alphabet[1] = CharCode_a
    /\ Cardinality(Range(dfa.sources[1])) >= 3
    /\ nfa.start \notin Range(dfa.sources[1])

\* No state of the epsilon closure of state 0 has a target in any column.
StartClosureHasNoTarget ==
    \A s \in Closure(0) : \A c \in 0..(Cardinality(nfa.divisions) - 1) :
      nfa.links[s][c] = INVALID

(***************************************************************************)
(* C20.  If no state in the epsilon closure of state 0 has a direct        *)
(* transition on any column, Dfa::from yields a matrix of exactly one row  *)
(* whose cells are all invalid.                                            *)
(***************************************************************************)
C20_NoTargetOneRow ==
    (pc = "done" /\ StartClosureHasNoTarget) =>
      /\ dfa.links.rows = 1
      /\ \A c \in 0..(dfa.links.columns - 1) : dfa.links.m[0][c] = INVALID

\* A finished one-row DFA of an NFA whose start closure has two or more
\* states, none with a target, and which has transitions out of states
\* outside that closure.
C20_Witness ==
    /\ pc = "done"
    /\ StartClosureHasNoTarget
    /\ Cardinality(Closure(0)) >= 2
    /\ \E s \in States(nfa.n) \ Closure(0) : \E c \in Cols :
         nfa.links[s][c] # INVALID
    /\ dfa.links.rows = 1

\* The positions of a batch that hold an update of expression id.
UpdatesOf(updates, id) ==
    {k \in DOMAIN updates : updates[k].expression_id = id}

\* The info of the last update of expression id in a batch that has one.
LastInfoOf(updates, id) ==
    LET k == CHOOSE j \in UpdatesOf(updates, id) :
               \A l \in UpdatesOf(updates, id) : l <= j
    IN [typename |-> updates[k].typename,
        payload |-> updates[k].payload,
        method_call |-> updates[k].method_pointer]

(***************************************************************************)
(* C21.  apply_updates is last-write-wins per expression: after the call   *)
(* the map holds, for every id of the batch, the info of the last update   *)
(* of that id in the batch, and every other entry is as before; the call   *)
(* publishes exactly one message, the ids of the batch in batch order, and *)
(* no other step publishes; a subscriber gets the messages published since *)
(* it subscribed in the order of the calls.                                *)
(***************************************************************************)
C21_ApplyUpdatesLastWins ==
    [][/\ reg_published' # reg_published =>
            /\ reg_published' =
                 Append(reg_published,
                        [k \in DOMAIN reg_last_batch' |->
                           reg_last_batch'[k].expression_id])
            /\ \A id \in ExpressionIds :
                 IF UpdatesOf(reg_last_batch', id) # {}
                   THEN /\ id \in DOMAIN reg_map'
                        /\ reg_map'[id] = LastInfoOf(reg_last_batch', id)
                   ELSE /\ (id \in DOMAIN reg_map') = (id \in DOMAIN reg_map)
                        /\ id \in DOMAIN reg_map => reg_map'[id] = reg_map[id]
       /\ reg_published' = reg_published =>
            (reg_map' = reg_map \/ reg_strong' = 0)
       /\ \A k \in DOMAIN reg_subs' :
            reg_subs'[k].kind = "stream" =>
              reg_subs'[k].received \o reg_subs'[k].inbox =
                SubSeq(reg_published', reg_subs'[k].start + 1,
                       Len(reg_published'))
      ]_vars

\* A batch of two updates of one expression, a typename and then none, has
\* been applied over an earlier batch that set another expression, and a
\* subscriber has taken both messages.
C21_Witness ==
    /\ Len(reg_published) = 2
    /\ Len(reg_last_batch) = 2
    /\ reg_last_batch[1].expression_id = reg_last_batch[2].expression_id
    /\ reg_last_batch[1].typename = "Text"
    /\ reg_last_batch[2].typename = "None"
    /\ \E id \in DOMAIN reg_map :
         /\ id # reg_last_batch[1].expression_id
         /\ reg_map[id].typename = "Text"
    /\ reg_map[reg_last_batch[1].expression_id].typename = "None"
    /\ \E k \in DOMAIN reg_subs :
         /\ reg_subs[k].kind = "stream"
         /\ reg_subs[k].received = reg_published

(***************************************************************************)
(* C22.  A future of get_type is ready at once, with the typename, when    *)
(* the registry holds an entry with a typename for its id.  Otherwise,     *)
(* once the executor has polled it over every message published so far     *)
(* (the registry being alive), it is still pending if no batch applied     *)
(* since its creation held its id with a typename in the stored entry, and *)
(* it has completed with the typename of the first such batch if there was *)
(* one.                                                                    *)
(***************************************************************************)
C22_FutureCompletesAtFirstBatch ==
    \A k \in DOMAIN reg_subs :
      reg_subs[k].kind = "future" =>
        /\ reg_subs[k].ready => reg_subs[k].result.tag = "some"
        /\ (~reg_subs[k].ready /\ reg_subs[k].inbox = <<>> /\ reg_strong > 0) =>
             IF reg_subs[k].due = "None"
               THEN reg_subs[k].result = Pending
               ELSE reg_subs[k].result = Some(reg_subs[k].due)

(***************************************************************************)
(* C23.  A future of get_type yields None only after the registry has been *)
(* dropped, and a pending future does not keep the registry alive: when    *)
(* the last handle is gone the registry is gone, with its map, whatever    *)
(* futures are pending, and every poll of a still-pending future from then *)
(* on completes it with None.                                              *)
(***************************************************************************)
C23_NoneOnlyAfterDrop ==
    [][/\ \A k \in DOMAIN reg_subs' :
            reg_subs'[k].result = None => reg_strong' = 0
       /\ reg_strong' = 0 =>
            /\ ~registry_alive(reg_strong', reg_subs')
            /\ reg_map' = EmptyVec
       /\ \A k \in DOMAIN reg_subs :
            (/\ reg_strong = 0
             /\ reg_subs[k].kind = "future"
             /\ reg_subs[k].result = Pending
             /\ reg_subs'[k] # reg_subs[k]) => reg_subs'[k].result = None
      ]_vars

\* The registry has been dropped while a future was pending over a published
\* message that holds its id, the registry's map was not empty, and the
\* future has completed with None.
C23_Witness ==
    /\ reg_strong = 0
    /\ reg_map = EmptyVec
    /\ \E k \in DOMAIN reg_subs :
         /\ reg_subs[k].kind = "future"
         /\ ~reg_subs[k].ready
         /\ reg_subs[k].due = "Text"
         /\ reg_subs[k].result = None
    /\ \E k \in DOMAIN reg_subs :
         /\ reg_subs[k].kind = "future"
         /\ reg_subs[k].result = Pending

\* The rule r has an Instance in the list of its (action type, key mask).
Registered(map, table, r) ==
    /\ table[r].key \in DOMAIN map
    /\ r \in Range(map[table[r].key])

(***************************************************************************)
(* C24.  Shortcut removal is lazy and tied to the Handle.  A rule with a   *)
(* Handle alive stays registered over every step, and every processing of  *)
(* its (action type, key mask) evaluates it.  A rule whose Handles are all *)
(* dropped never triggers a command again; its Instance stays in the list  *)
(* over every step but the next processing of its own (action type, key    *)
(* mask), which removes it.                                                *)
(***************************************************************************)
C24_LazyRemoval ==
    [][\A r \in DOMAIN sc_rule :
         LET mine == /\ sc_processed' = sc_processed + 1
                     /\ sc_last_key' = sc_rule[r].key
         IN /\ (Registered(sc_action_map, sc_rule, r)
                /\ sc_rule[r].handles > 0) =>
                 /\ Registered(sc_action_map', sc_rule', r)
                 /\ sc_rule'[r].evaluated =
                      sc_rule[r].evaluated + (IF mine THEN 1 ELSE 0)
            /\ sc_rule[r].handles = 0 =>
                 /\ sc_rule'[r].triggered = sc_rule[r].triggered
                 /\ sc_rule'[r].evaluated = sc_rule[r].evaluated
                 /\ sc_rule'[r].handles = 0
                 /\ Registered(sc_action_map', sc_rule', r) =
                      (Registered(sc_action_map, sc_rule, r) /\ ~mine)
      ]_vars

\* A rule that triggered its command while a Handle was alive has lost its
\* Handles, has stayed in the list over a processing of another (action
\* type, key mask), and has been removed by a processing of its own, while
\* a second rule of the same list, whose Handle is alive, is still there.
C24_Witness ==
    /\ sc_processed = 3
    /\ \E r, q \in DOMAIN sc_rule :
         /\ r # q
         /\ sc_rule[r].key = sc_rule[q].key
         /\ sc_rule[r].handles = 0
         /\ sc_rule[r].triggered = 1
         /\ ~Registered(sc_action_map, sc_rule, r)
         /\ sc_rule[q].handles > 0
         /\ Registered(sc_action_map, sc_rule, q)
         /\ sc_rule[q].evaluated = 2

\* The identifiers returned so far are pairwise different, whatever their
\* types and threads, and nonzero, and fetch_add has handed out strictly
\* increasing values.
CounterValuesUnique ==
    /\ \A j, k \in DOMAIN cnt_returned :
         cnt_returned[j].value = cnt_returned[k].value => j = k
    /\ \A k \in DOMAIN cnt_returned : cnt_returned[k].value # 0
    /\ \A j, k \in DOMAIN cnt_fetched :
         j < k => cnt_fetched[j] < cnt_fetched[k]

ParserAt(s, str) == [Parser_new(str) EXCEPT !.dfa_state = s]

\* The matrix cell of row s for the column of the symbol.
CellOf(s, symbol) == dfa.links.m[s][index_of_symbol(dfa.alphabet, symbol)]

(***************************************************************************)
(* C26.  One call of a generated routine makes at most one transition and  *)
(* consumes at most one symbol: for every row, every current symbol and    *)
(* every following symbol, the scanner is left in the row it was in or in  *)
(* the cell of the current symbol, with at most one symbol consumed.       *)
(***************************************************************************)
C26_AtMostOneTransition ==
    pc = "done" =>
      \A s \in Rows : \A str \in Inputs :
        LET p == ParserAt(s, str)
            q == step_state(gen_parser_steps_code(dfa), s, p)
        IN /\ q.consumed <= 1
           /\ q.dfa_state \in {s, CellOf(s, p.current_input)}

(***************************************************************************)
(* C27.  When the current symbol is in a column whose cell in the current  *)
(* row is invalid, the routine of that row changes nothing: state, current *)
(* symbol and remaining input stay, and a second call changes nothing      *)
(* either.                                                                 *)
(***************************************************************************)
C27_InvalidCellNoChange ==
    pc = "done" =>
      \A s \in Rows : \A str \in Inputs :
        LET code == gen_parser_steps_code(dfa)
            p == ParserAt(s, str)
            q == step_state(code, s, p)
        IN CellOf(s, p.current_input) = INVALID =>
             /\ q.dfa_state = s
             /\ q.current_input = p.current_input
             /\ q.input_iter = p.input_iter
             /\ q.consumed = 0
             /\ step_state(code, s, q) = q

\* The scanner harness stands in a row whose cell for the current symbol is
\* invalid while a later column of the row has a valid cell, and the
\* routine has been called: nothing was consumed in that call.
C27_Witness ==
    /\ scan = "run"
    /\ steps = 2
    /\ parser.dfa_state \in Rows
    /\ CellOf(parser.dfa_state, parser.current_input) = INVALID
    /\ \E c \in 0..(dfa.links.columns - 1) :
         /\ c > index_of_symbol(dfa.alphabet, parser.current_input)
         /\ dfa.links.m[parser.dfa_state][c] # INVALID
    /\ parser.consumed = 1

(***************************************************************************)
(* C28.  eps_matrix is sound: every member of the final entry of a state s *)
(* is reachable from s by zero or more epsilon links, whichever cached     *)
(* sets the visited targets have contributed.                              *)
(***************************************************************************)
C28_EpsMatrixSound ==
    pc # "start" => \A s \in States(nfa.n) : eps_mat[s] \subseteq Closure(s)

\* An NFA with a cycle of two or more states (its back link finds the
\* target visited, the target's set not yet complete), with a state that a
\* later root reaches after an earlier root has cached its set, and with a
\* state that does not reach every state.
C28_Witness ==
    /\ pc = "done"
    /\ \E s \in States(nfa.n) :
         \E t \in Range(nfa.eps[s]) \ {s} : s \in Closure(t)
    /\ \E s \in States(nfa.n) :
         \E t \in Range(nfa.eps[s]) : t < s /\ Closure(t) # {t}
    /\ \E s \in States(nfa.n) :
         /\ Closure(s) # States(nfa.n)
         /\ Closure(s) # {s}

(***************************************************************************)
(* C29.  eps_matrix returns for every NFA, epsilon self-loops and cycles   *)
(* included; within one root's traversal fill_eps_matrix is called on a    *)
(* state at most once, the recursion is at most n deep and the calls over  *)
(* all roots are at most n * n, n the number of states.                    *)
(***************************************************************************)
C29_EpsMatrixBounded ==
    pc # "start" =>
      LET run == eps_matrix_run(nfa)
      IN /\ run.states = eps_mat
         /\ ~run.reentered
         /\ run.depth <= nfa.n
         /\ run.calls <= nfa.n * nfa.n

\* An NFA with a self-loop and a cycle through all of its three or more
\* states, where the bounds are met: the recursion goes n deep and the
\* roots make n * n calls.
C29_Witness ==
    /\ pc = "done"
    /\ nfa.n >= 3
    /\ \E s \in States(nfa.n) : s \in Range(nfa.eps[s])
    /\ \A s \in States(nfa.n) : Closure(s) = States(nfa.n)
    /\ eps_matrix_run(nfa).depth = nfa.n
    /\ eps_matrix_run(nfa).calls = nfa.n * nfa.n

\* The indices of a matrix: (row, column) pairs within its dimensions.
MatrixIndices(matrix) ==
    (0..(matrix.rows - 1)) \X (0..(matrix.columns - 1))

\* The columns the loop `for voc_ix in 0..nfa.alphabet.divisions.len()`
\* goes through.
VocIxs == 0..(Cardinality(nfa.divisions) - 1)

(***************************************************************************)
(* C30.  Dfa::from makes no out-of-bounds access on an NFA with at least   *)
(* one state whose links all target existing states: wherever the          *)
(* algorithm stands, eps_mat[0] exists, nfa_mat[(s, c)] exists for every   *)
(* member s of a worklist set and every column c, eps_mat[target] exists   *)
(* for every valid target read from nfa_mat, dfa_mat[(i, c)] exists for    *)
(* the row being filled, and nfa[state] exists for every member of a       *)
(* worklist set.                                                           *)
(***************************************************************************)
C30_AccessesInBounds ==
    /\ pc = "start" => 0 \in DOMAIN eps_matrix(nfa)
    /\ pc # "start" =>
         /\ 0 \in DOMAIN eps_mat
         /\ \A k \in DOMAIN dfa_eps_ixs : \A s \in dfa_eps_ixs[k] :
              /\ s \in DOMAIN nfa.export
              /\ \A c \in VocIxs :
                   /\ <<s, c>> \in MatrixIndices(nfa_mat)
                   /\ nfa_mat.m[s][c] # INVALID =>
                        nfa_mat.m[s][c] \in DOMAIN eps_mat
    /\ pc = "for" =>
         /\ i \in DOMAIN dfa_eps_ixs
         /\ \A c \in VocIxs : <<i, c>> \in MatrixIndices(dfa_mat)

\* The loop fills a row after the first, for a source set of two or more
\* NFA states of which one has a target in the column, and the worklist
\* has grown beyond the row.
C30_Witness ==
    /\ pc = "for"
    /\ i >= 1
    /\ voc_ix \in VocIxs
    /\ Cardinality(dfa_eps_ixs[i]) >= 2
    /\ \E s \in dfa_eps_ixs[i] : nfa_mat.m[s][voc_ix] # INVALID
    /\ VecLen(dfa_eps_ixs) > i + 1

(***************************************************************************)
(* C31.  The dictionary and the worklist stay in bijection throughout the  *)
(* determinization loop: they have the same number of entries, the keys of *)
(* the dictionary are the sets of the worklist and no other set, and the   *)
(* set at position k is mapped to identifier k.                            *)
(***************************************************************************)
C31_DictionaryWorklistBijection ==
    /\ Cardinality(DOMAIN dfa_eps_map) = VecLen(dfa_eps_ixs)
    /\ DOMAIN dfa_eps_map = Range(dfa_eps_ixs)
    /\ \A set \in DOMAIN dfa_eps_map :
         /\ dfa_eps_map[set] \in DOMAIN dfa_eps_ixs
         /\ dfa_eps_ixs[dfa_eps_map[set]] = set

\* The loop has three or more sets and has just written a cell whose set
\* the dictionary held already, with the identifier of a row begun before.
C31_Witness ==
    /\ pc = "for"
    /\ VecLen(dfa_eps_ixs) >= 3
    /\ voc_ix >= 1
    /\ dfa_mat.m[i][voc_ix - 1] # INVALID
    /\ dfa_mat.m[i][voc_ix - 1] <= i

\* The valid cells of a matrix.
ValidCells(matrix) ==
    {x \in MatrixIndices(matrix) : matrix.m[x[1]][x[2]] # INVALID}

(***************************************************************************)
(* C32.  Every valid cell of the DFA matrix refers to an existing row:     *)
(* during construction a valid cell holds an identifier below the worklist *)
(* length, in the finished DFA a valid cell holds an identifier below the  *)
(* row count, and next_state on a row and any symbol yields a row or the   *)
(* invalid identifier.                                                     *)
(***************************************************************************)
C32_CellsReferToRows ==
    /\ pc \in {"while", "for"} =>
         \A x \in ValidCells(dfa_mat) :
           dfa_mat.m[x[1]][x[2]] \in DOMAIN dfa_eps_ixs
    /\ pc = "done" =>
         /\ \A x \in ValidCells(dfa.links) :
              dfa.links.m[x[1]][x[2]] < dfa.links.rows
         /\ \A s \in Rows : \A symbol \in Symbols :
              next_state(dfa, s, symbol) \in Rows \cup {INVALID}

\* A finished DFA of three or more rows where next_state yields the last
\* row from the last row itself, and the invalid identifier elsewhere.
C32_Witness ==
    /\ pc = "done"
    /\ dfa.links.rows >= 3
    /\ \E symbol \in Symbols :
         next_state(dfa, dfa.links.rows - 1, symbol) = dfa.links.rows - 1
    /\ \E s \in Rows : \E symbol \in Symbols :
         next_state(dfa, s, symbol) = INVALID

\* rows and the rows named by the valid cells of a member of rows.
RowSuccessors(rows) ==
    rows \cup {dfa.links.m[x[1]][x[2]] :
                 x \in {y \in ValidCells(dfa.links) : y[1] \in rows}}

RECURSIVE RowReach(_)
\* The rows reachable from a member of rows through valid cells.
RowReach(rows) ==
    IF RowSuccessors(rows) = rows THEN rows ELSE RowReach(RowSuccessors(rows))

(***************************************************************************)
(* C33.  The finished DFA has no unreachable row: every row k >= 1 is the  *)
(* target of a valid cell of a row with a smaller index, every row is      *)
(* reachable from row 0 through valid cells, and every row has a non-empty *)
(* source set.                                                             *)
(***************************************************************************)
C33_NoUnreachableRows ==
    pc = "done" =>
      /\ \A k \in Rows \ {0} :
           \E x \in ValidCells(dfa.links) :
             x[1] < k /\ dfa.links.m[x[1]][x[2]] = k
      /\ RowReach({START_STATE}) = Rows
      /\ \A k \in Rows : dfa.sources[k] # <<>>

\* A finished DFA with a row that no cell of row 0 names (it is reached
\* through a later row), and with an invalid cell.
C33_Witness ==
    /\ pc = "done"
    /\ \E k \in Rows \ {0} :
         \A x \in ValidCells(dfa.links) :
           dfa.links.m[x[1]][x[2]] = k => x[1] >= 1
    /\ ValidCells(dfa.links) # MatrixIndices(dfa.links)

(***************************************************************************)
(* C34.  gen_parser_steps_code emits one routine per DFA row and a         *)
(* dispatch table of as many entries as rows, entry i naming the routine   *)
(* made from row i; every routine has one test per column, in increasing   *)
(* column order, with the first and last symbol of the column as bounds    *)
(* and the cell of the row in that column as its transition.               *)
(***************************************************************************)
C34_RoutinePerRow ==
    pc = "done" =>
      LET code == gen_parser_steps_code(dfa)
      IN /\ DOMAIN code.fns = Rows
         /\ DOMAIN code.table = Rows
         /\ \A row \in Rows :
              /\ code.table[row] = row
              /\ DOMAIN code.fns[row] = 0..(dfa.links.columns - 1)
              /\ \A column \in DOMAIN code.fns[row] :
                   LET block == code.fns[row][column]
                   IN /\ block.start = dfa.alphabet[column]
                      /\ block.end = RangeOf(dfa.alphabet, column).end
                      /\ block.start <= block.end
                      /\ block.invalid <=> dfa.links.m[row][column] = INVALID
                      /\ ~block.invalid =>
                           block.target = dfa.links.m[row][column]
                      /\ \A later \in DOMAIN code.fns[row] :
                           later > column =>
                             block.end < code.fns[row][later].start

\* The scanner harness has dispatched through the table of a DFA of three
\* or more rows and two or more columns and stands in a row after row 0,
\* a row with a valid and an invalid cell.
C34_Witness ==
    /\ scan = "run"
    /\ steps >= 1
    /\ dfa.links.rows >= 3
    /\ dfa.links.columns >= 2
    /\ parser.dfa_state \in Rows \ {0}
    /\ \E c1, c2 \in 0..(dfa.links.columns - 1) :
         /\ dfa.links.m[parser.dfa_state][c1] = INVALID
         /\ dfa.links.m[parser.dfa_state][c2] # INVALID

\* The first symbols the tests of the checked-in routines step_state0 ..
\* step_state3 compare with, the same in every routine.
CheckedInStarts == <<0, CharCode_a, CharCode_b, CharCode_c, CharCode_c + 1>>

\* The bodies of the blocks of the checked-in routines step_state0 ..
\* step_state3: the state assigned to parser.dfa_state, X for `// invalid`.
CheckedInTargets ==
    LET X == INVALID
    IN <<<<X, 1, X, 2, X>>,
         <<X, 1, 3, 2, X>>,
         <<X, 1, X, 3, X>>,
         <<X, 1, X, X, X>>>>

\* The source sets of the rows the claim names.
Test1Sources == <<{0}, {0, 1}, {2, 3}, {2}>>

(***************************************************************************)
(* C35.  Dfa::from on the NFA of test1 yields four rows with the source    *)
(* sets {s0}, {s0,s1}, {s2,s3}, {s2} and the transitions of the checked-in *)
(* routines: row 0: a->1, c->2; row 1: a->1, b->3, c->2; row 2: a->1,      *)
(* c->3; row 3: a->1; every other cell invalid; and the routines emitted   *)
(* for it have the tests and bodies of step_state0 .. step_state3.         *)
(***************************************************************************)
C35_Test1Dfa ==
    (nfa = Test1Nfa /\ pc = "done") =>
      /\ dfa.links.rows = 4
      /\ dfa.links.columns = 5
      /\ \A row \in 0..3 :
           /\ Range(dfa.sources[row]) = Test1Sources[row + 1]
           /\ \A column \in 0..4 :
                LET block == gen_parser_steps_code(dfa).fns[row][column]
                IN /\ dfa.links.m[row][column] =
                        CheckedInTargets[row + 1][column + 1]
                   /\ block.start = CheckedInStarts[column + 1]
                   /\ block.invalid <=>
                        CheckedInTargets[row + 1][column + 1] = INVALID
                   /\ ~block.invalid =>
                        block.target = CheckedInTargets[row + 1][column + 1]
      /\ DOMAIN gen_parser_steps_code(dfa).table = 0..3

\* Dfa::from has returned for the NFA of test1, with its two epsilon links
\* s1 -> s0 and s3 -> s2.
C35_Witness ==
    /\ nfa = Test1Nfa
    /\ pc = "done"
    /\ dfa.links.rows = 4
    /\ nfa.eps[1] = <<0>>
    /\ nfa.eps[3] = <<2>>

(***************************************************************************)
(* C36.  Shortcut processing is re-entrancy safe: while the commands that  *)
(* process_rules collected are emitted, neither the instance map of the    *)
(* command registry nor the action map is borrowed, and a handler that     *)
(* adds a shortcut or runs a key action during the emission does not hit a *)
(* RefCell double borrow.                                                  *)
(***************************************************************************)
C36_EmissionReentrancySafe ==
    /\ sc_call.emitted > 0 =>
         /\ sc_call.action_map_borrow = "free"
         /\ sc_call.instances_borrow = "free"
    /\ sc_call.outcome # "panicked"

\* The views attached to the display object of the Root View.
Attached == Range(root_model.children)

(***************************************************************************)
(* C37.  The Root View starts in state WelcomeScreen with the welcome view *)
(* attached and the project view not attached; after one or more           *)
(* switch_view_to_project events the state is OpenedProject with the       *)
(* project view attached and the welcome view detached; the state never    *)
(* returns to WelcomeScreen, and at no time are both views or neither view *)
(* attached.                                                               *)
(***************************************************************************)
C37_RootViewStates ==
    /\ root_model.state = "WelcomeScreen" /\ Attached = {"welcome_view"}
    /\ [](/\ root_events = 0 =>
               /\ root_model.state = "WelcomeScreen"
               /\ root_model.children = <<"welcome_view">>
          /\ root_events >= 1 =>
               /\ root_model.state = "OpenedProject"
               /\ root_model.children = <<"project_view">>
          /\ Cardinality(Attached) = 1)
    /\ [][root_model.state = "OpenedProject" =>
            root_model'.state = "OpenedProject"]_vars

\* The view has had two or more switch_view_to_project events while two or
\* more of its handles were alive.
C37_Witness ==
    /\ root_events >= 2
    /\ Cardinality(root_handles) >= 2
    /\ root_model.state = "OpenedProject"

====
